---- MODULE Spec2Model ----
(***************************************************************************)
(* Dual zone HVAC controller (custom_components/dual_zone_hvac).           *)
(*                                                                         *)
(* Units.  Temperatures are integers in tenths of a degree F (68.0 F is    *)
(* 680).  Times are integers in seconds.  Learned rates, times-to-target   *)
(* and commanded setpoints are exact rationals <<n, d>> (tenths of a       *)
(* degree per minute, minutes, tenths of a degree); <<1, 0>> is float      *)
(* +inf.  An optional value (Python None) is <<>>, a present value v is    *)
(* <<v>>.                                                                  *)
(*                                                                         *)
(* Scheduling.  Every coroutine of the controller runs on one event loop:  *)
(* it runs without interruption from one real suspension (an awaited store *)
(* write, service call or sleep) to the next.  One action of the model is  *)
(* one such run of one coroutine.                                          *)
(***************************************************************************)
EXTENDS Integers, Sequences, FiniteSets, TLC

\* ------------------------------------------------------------------ bounds

\* Enabled control-loop iterations explored (caps iteration_count).
MaxIter == 11
\* The same cap where ticks interleave, and where two commands interleave.
MaxIterAny == 3
MaxIterCmds == 2
\* The same cap in SpecSeq and in SpecLearn.
MaxIterSeq == 5
MaxIterLearn == 8
\* Clock advances explored: of update_interval, and of min_compressor_off_time.
MaxAdvances == 6
MaxLongAdvances == 1
\* SpecStarts: clock advances of StartGap seconds.
MaxStartAdvances == 3

\* --------------------------------------------------------------- constants

DEFAULT_DEADBAND == 5
DEFAULT_MIN_OFFSET == 3
DEFAULT_CONFLICT_THRESHOLD == 20
DEFAULT_UPDATE_INTERVAL == 60
DEFAULT_MAX_STARTS_PER_HOUR == 3
DEFAULT_MIN_COMPRESSOR_RUNTIME == 180
DEFAULT_MIN_COMPRESSOR_OFF_TIME == 180
DEFAULT_NOMINAL_FAN_SPEED == "medium"
\* deque(maxlen=10) of ZoneState.temperature_history / mode_history
HistoryMaxLen == 10
\* deque(maxlen=20) of compressor_start_times
StartTimesMaxLen == 20
\* cutoff = now - 3600
RecentWindow == 3600
\* zone1/zone2 target_temperature of the documented configuration
ConfigTargetTemperature == 680

Zones == {"zone1", "zone2"}
Mode == {"heat", "cool", "dry", "fan_only", "off"}
FanSpeed == {"quiet", "low", "medium", "high"}
HVACMode == {"heat", "cool", "heat_cool", "dry", "fan_only", "off"}
FAN_SPEED_LEVELS == [s \in FanSpeed |->
    CASE s = "quiet" -> 0 [] s = "low" -> 1 [] s = "medium" -> 2 [] s = "high" -> 3]
speed_options == <<"quiet", "low", "medium", "high">>

OtherZone(zone) == IF zone = "zone1" THEN "zone2" ELSE "zone1"

None == <<>>
Some(v) == <<v>>

\* ------------------------------------------------------- exact arithmetic

Abs(x) == IF x < 0 THEN -x ELSE x
Min(a, b) == IF a < b THEN a ELSE b
Max(a, b) == IF a > b THEN a ELSE b

RECURSIVE GCD(_, _)
GCD(a, b) == IF b = 0 THEN a ELSE GCD(b, a % b)

\* The rational n/d (d > 0) in lowest terms.
Frac(n, d) == LET g == GCD(Abs(n), d) IN <<n \div g, d \div g>>
Rat(i) == <<i, 1>>
Inf == <<1, 0>>
IsInf(a) == a[2] = 0

\* Float operations on non-negative operands that may be +inf.
FLess(a, b) ==
    IF IsInf(a) THEN FALSE
    ELSE IF IsInf(b) THEN TRUE
    ELSE a[1] * b[2] < b[1] * a[2]
FLessEq(a, b) == a = b \/ FLess(a, b)
FAdd(a, b) ==
    IF IsInf(a) \/ IsInf(b) THEN Inf
    ELSE Frac(a[1] * b[2] + b[1] * a[2], a[2] * b[2])
\* a - b for finite b
FSub(a, b) ==
    IF IsInf(a) THEN Inf
    ELSE Frac(a[1] * b[2] - b[1] * a[2], a[2] * b[2])
\* a * b for a > 0 or b finite
FMul(a, b) ==
    IF IsInf(a) \/ IsInf(b) THEN Inf
    ELSE Frac(a[1] * b[1], a[2] * b[2])
\* a / b for finite a and finite b > 0
FDiv(a, b) == Frac(a[1] * b[2], a[2] * b[1])
FMax(a, b) == IF FLess(a, b) THEN b ELSE a
FMin(a, b) == IF FLess(b, a) THEN b ELSE a

RECURSIVE SumSeq(_)
SumSeq(s) == IF s = <<>> THEN 0 ELSE s[1] + SumSeq(Tail(s))

\* Python s[-k:]
LastN(s, k) == IF Len(s) <= k THEN s ELSE SubSeq(s, Len(s) - k + 1, Len(s))

\* list.append(x): the buffer keeps every entry.
DequeAppend_unbounded(q, x, n) == Append(q, x)

\* deque(maxlen=n).append(x)
DequeAppend(q, x, n) == IF Len(q) >= n THEN Append(Tail(q), x) ELSE Append(q, x)

\* ------------------------------------------------------------------ state

VARIABLES
    now,                         \* time.time()
    entity,                      \* the two physical climate entities (hass.states)
    store,                       \* Store "dual_zone_hvac.state": None or <<data>>
    min_offset,                  \* self.min_offset, from the configuration
    zones,                       \* self.zones: zone -> ZoneState
    heating_rate, cooling_rate, leakage_rate,
    rate_samples,
    enabled,
    iteration_count,
    compressor_start_times,
    compressor_running,
    compressor_last_start_time,
    compressor_last_stop_time,
    proc                         \* the coroutines in flight: position and locals

ctl == <<zones, heating_rate, cooling_rate, leakage_rate, rate_samples, enabled,
         iteration_count, compressor_start_times, compressor_running,
         compressor_last_start_time, compressor_last_stop_time>>
vars == <<now, entity, store, min_offset, ctl, proc>>

\* Settings read in __init__ (the defaults of SETTINGS_SCHEMA).  min_offset
\* is a variable: SETTINGS_SCHEMA accepts any float for it.
deadband == DEFAULT_DEADBAND
conflict_threshold == DEFAULT_CONFLICT_THRESHOLD
update_interval == DEFAULT_UPDATE_INTERVAL
max_starts_per_hour == DEFAULT_MAX_STARTS_PER_HOUR
min_compressor_runtime == DEFAULT_MIN_COMPRESSOR_RUNTIME
min_compressor_off_time == DEFAULT_MIN_COMPRESSOR_OFF_TIME

\* ------------------------------------------------------ sensors, actuators

\* _get_climate_temperature without the check of the entity's state.
get_climate_temperature_unchecked(zone) == entity[zone].current_temperature

\* _get_climate_temperature: None when the entity is missing, unknown or
\* unavailable or has no current_temperature attribute.
get_climate_temperature(zone) ==
    IF ~entity[zone].available THEN None
    ELSE entity[zone].current_temperature

\* _get_climate_mode followed by _ha_mode_to_internal.
get_climate_mode(zone) ==
    IF ~entity[zone].available THEN "off"
    ELSE IF entity[zone].hvac_mode \in Mode THEN entity[zone].hvac_mode
    ELSE "off"

\* ----------------------------------------------------------- ModeArbiter

\* determine_desired_mode with the comparisons against the deadband not
\* strict.
determine_desired_mode_non_strict(zone, current_temp, deadband_override) ==
    LET zone_state == zones[zone]
        hvac_mode == zone_state.hvac_mode
        db == deadband_override
    IN  IF hvac_mode = "off" THEN "off"
        ELSE IF hvac_mode = "heat_cool" THEN
            IF current_temp <= zone_state.target_temp_low - db THEN "heat"
            ELSE IF current_temp >= zone_state.target_temp_high + db THEN "cool"
            ELSE "fan_only"
        ELSE IF hvac_mode = "heat" THEN
            IF zone_state.target_setpoint - current_temp >= db THEN "heat"
            ELSE "fan_only"
        ELSE IF hvac_mode = "cool" THEN
            IF zone_state.target_setpoint - current_temp <= -db THEN "cool"
            ELSE "fan_only"
        ELSE IF hvac_mode = "dry" THEN
            IF Abs(zone_state.target_setpoint - current_temp) <= 50 THEN "dry"
            ELSE "fan_only"
        ELSE "fan_only"

\* determine_desired_mode without the branch for the user mode off.
determine_desired_mode_without_off(zone, current_temp, deadband_override) ==
    LET zone_state == zones[zone]
        hvac_mode == zone_state.hvac_mode
        db == deadband_override
    IN  IF hvac_mode = "heat_cool" THEN
            IF current_temp < zone_state.target_temp_low - db THEN "heat"
            ELSE IF current_temp > zone_state.target_temp_high + db THEN "cool"
            ELSE "fan_only"
        ELSE IF hvac_mode = "heat" THEN
            IF zone_state.target_setpoint - current_temp > db THEN "heat"
            ELSE "fan_only"
        ELSE IF hvac_mode = "cool" THEN
            IF zone_state.target_setpoint - current_temp < -db THEN "cool"
            ELSE "fan_only"
        ELSE IF hvac_mode = "dry" THEN
            IF Abs(zone_state.target_setpoint - current_temp) < 50 THEN "dry"
            ELSE "fan_only"
        ELSE "fan_only"

determine_desired_mode(zone, current_temp, deadband_override) ==
    LET zone_state == zones[zone]
        hvac_mode == zone_state.hvac_mode
        db == deadband_override
    IN  IF hvac_mode = "off" THEN "off"
        ELSE IF hvac_mode = "heat_cool" THEN
            IF current_temp < zone_state.target_temp_low - db THEN "heat"
            ELSE IF current_temp > zone_state.target_temp_high + db THEN "cool"
            ELSE "fan_only"
        ELSE IF hvac_mode = "heat" THEN
            IF zone_state.target_setpoint - current_temp > db THEN "heat"
            ELSE "fan_only"
        ELSE IF hvac_mode = "cool" THEN
            IF zone_state.target_setpoint - current_temp < -db THEN "cool"
            ELSE "fan_only"
        ELSE IF hvac_mode = "dry" THEN
            IF Abs(zone_state.target_setpoint - current_temp) < 50 THEN "dry"
            ELSE "fan_only"
        ELSE "fan_only"

\* modes_conflict without the heat/dry rule.
modes_conflict_heat_cool_only(mode1, mode2) ==
    (mode1 = "heat" /\ mode2 = "cool") \/ (mode1 = "cool" /\ mode2 = "heat")

\* modes_conflict that looks for heat in its first argument only.
modes_conflict_one_way(mode1, mode2) ==
    mode1 = "heat" /\ mode2 \in {"cool", "dry"}

modes_conflict(mode1, mode2) ==
    IF (mode1 = "heat" /\ mode2 = "cool") \/ (mode1 = "cool" /\ mode2 = "heat")
    THEN TRUE
    ELSE IF (mode1 = "heat" /\ mode2 = "dry") \/ (mode1 = "dry" /\ mode2 = "heat")
    THEN TRUE
    ELSE FALSE

\* The conflict branch where a zone wins already when its error equals the
\* other's plus the threshold.
resolve_conflict_non_strict(desired_mode1, desired_mode2, error1_abs, error2_abs) ==
    IF error1_abs >= error2_abs + conflict_threshold
    THEN <<desired_mode1, "fan_only">>
    ELSE IF error2_abs >= error1_abs + conflict_threshold
    THEN <<"fan_only", desired_mode2>>
    ELSE <<"fan_only", "fan_only">>

\* The conflict branch of async_control_loop: the arbitrated pair of modes.
resolve_conflict(desired_mode1, desired_mode2, error1_abs, error2_abs) ==
    IF error1_abs > error2_abs + conflict_threshold
    THEN <<desired_mode1, "fan_only">>
    ELSE IF error2_abs > error1_abs + conflict_threshold
    THEN <<"fan_only", desired_mode2>>
    ELSE <<"fan_only", "fan_only">>

\* ------------------------------------------------------------- CycleGuard

\* count_recent_starts that also counts a start exactly an hour old.
count_recent_starts_inclusive ==
    LET cutoff == now - RecentWindow
    IN  Cardinality({i \in 1..Len(compressor_start_times) :
                        compressor_start_times[i] >= cutoff})

count_recent_starts ==
    LET cutoff == now - RecentWindow
    IN  Cardinality({i \in 1..Len(compressor_start_times) :
                        compressor_start_times[i] > cutoff})

\* get_dynamic_deadband that widens only above the limit.
get_dynamic_deadband_above_limit ==
    IF count_recent_starts > max_starts_per_hour
    THEN deadband * 3
    ELSE deadband

get_dynamic_deadband ==
    IF count_recent_starts >= max_starts_per_hour
    THEN deadband * 3
    ELSE deadband

\* is_compressor_running that does not take dry for a running compressor.
is_compressor_running_heat_cool_only(mode1, mode2) ==
    mode1 \in {"heat", "cool"} \/ mode2 \in {"heat", "cool"}

is_compressor_running(mode1, mode2) ==
    mode1 \in {"heat", "cool", "dry"} \/ mode2 \in {"heat", "cool", "dry"}

\* enforce_minimum_runtime without the minimum-runtime override.
enforce_minimum_runtime_no_override(mode1, mode2) ==
    LET would_start == is_compressor_running(mode1, mode2) /\ ~compressor_running
    IN  IF /\ would_start
           /\ compressor_last_stop_time # None
           /\ now - compressor_last_stop_time[1] < min_compressor_off_time
        THEN <<"fan_only", "fan_only">>
        ELSE <<mode1, mode2>>

\* enforce_minimum_runtime whose runtime override returns the previous mode
\* of zone 1 for both zones.
enforce_minimum_runtime_previous_of_zone1(mode1, mode2) ==
    LET would_start == is_compressor_running(mode1, mode2) /\ ~compressor_running
        would_stop == ~is_compressor_running(mode1, mode2) /\ compressor_running
    IN  IF /\ would_start
           /\ compressor_last_stop_time # None
           /\ now - compressor_last_stop_time[1] < min_compressor_off_time
        THEN <<"fan_only", "fan_only">>
        ELSE IF /\ would_stop
                /\ compressor_last_start_time # None
                /\ now - compressor_last_start_time[1] < min_compressor_runtime
        THEN <<zones["zone1"].last_mode, zones["zone1"].last_mode>>
        ELSE <<mode1, mode2>>

\* enforce_minimum_runtime whose off-time veto leaves a zone that is off as
\* it is.
enforce_minimum_runtime_veto_spares_off(mode1, mode2) ==
    LET would_start == is_compressor_running(mode1, mode2) /\ ~compressor_running
        would_stop == ~is_compressor_running(mode1, mode2) /\ compressor_running
    IN  IF /\ would_start
           /\ compressor_last_stop_time # None
           /\ now - compressor_last_stop_time[1] < min_compressor_off_time
        THEN <<IF mode1 = "off" THEN "off" ELSE "fan_only",
               IF mode2 = "off" THEN "off" ELSE "fan_only">>
        ELSE IF /\ would_stop
                /\ compressor_last_start_time # None
                /\ now - compressor_last_start_time[1] < min_compressor_runtime
        THEN <<zones["zone1"].last_mode, zones["zone2"].last_mode>>
        ELSE <<mode1, mode2>>

enforce_minimum_runtime(mode1, mode2) ==
    LET would_start == is_compressor_running(mode1, mode2) /\ ~compressor_running
        would_stop == ~is_compressor_running(mode1, mode2) /\ compressor_running
    IN  IF /\ would_start
           /\ compressor_last_stop_time # None
           /\ now - compressor_last_stop_time[1] < min_compressor_off_time
        THEN <<"fan_only", "fan_only">>
        ELSE IF /\ would_stop
                /\ compressor_last_start_time # None
                /\ now - compressor_last_start_time[1] < min_compressor_runtime
        THEN <<zones["zone1"].last_mode, zones["zone2"].last_mode>>
        ELSE <<mode1, mode2>>

\* --------------------------------------------------------- FanSpeedPlanner

\* calculate_optimal_fan_speed with the two boosts exchanged: one level above
\* nominal for a large error, two for a medium one.
calculate_optimal_fan_speed_swapped_boosts(zone, mode, temp_error, is_lead, other_zone_mode) ==
    LET nominal_speed == zones[zone].nominal_fan_speed
        nominal_level == FAN_SPEED_LEVELS[nominal_speed]
    IN  IF mode = "fan_only" THEN
            IF other_zone_mode \in {"heat", "cool"} THEN "quiet" ELSE nominal_speed
        ELSE IF mode = "off" THEN "quiet"
        ELSE IF mode \in {"heat", "cool"} THEN
            IF temp_error > 50 THEN "high"
            ELSE IF temp_error > 30 THEN speed_options[Min(nominal_level + 1, 3) + 1]
            ELSE IF temp_error > 15 THEN speed_options[Min(nominal_level + 2, 3) + 1]
            ELSE IF is_lead THEN
                IF temp_error < 5 THEN "quiet"
                ELSE speed_options[Max(nominal_level - 2, 0) + 1]
            ELSE speed_options[Max(nominal_level - 1, 0) + 1]
        ELSE nominal_speed

\* calculate_optimal_fan_speed that also quiets a circulating zone next to a
\* dehumidifying one.
calculate_optimal_fan_speed_quiet_beside_dry(zone, mode, temp_error, is_lead, other_zone_mode) ==
    LET nominal_speed == zones[zone].nominal_fan_speed
        nominal_level == FAN_SPEED_LEVELS[nominal_speed]
    IN  IF mode = "fan_only" THEN
            IF other_zone_mode \in {"heat", "cool", "dry"} THEN "quiet"
            ELSE nominal_speed
        ELSE IF mode = "off" THEN "quiet"
        ELSE IF mode \in {"heat", "cool"} THEN
            IF temp_error > 50 THEN "high"
            ELSE IF temp_error > 30 THEN speed_options[Min(nominal_level + 2, 3) + 1]
            ELSE IF temp_error > 15 THEN speed_options[Min(nominal_level + 1, 3) + 1]
            ELSE IF is_lead THEN
                IF temp_error < 5 THEN "quiet"
                ELSE speed_options[Max(nominal_level - 2, 0) + 1]
            ELSE speed_options[Max(nominal_level - 1, 0) + 1]
        ELSE nominal_speed

calculate_optimal_fan_speed(zone, mode, temp_error, is_lead, other_zone_mode) ==
    LET nominal_speed == zones[zone].nominal_fan_speed
        nominal_level == FAN_SPEED_LEVELS[nominal_speed]
    IN  IF mode = "fan_only" THEN
            IF other_zone_mode \in {"heat", "cool"} THEN "quiet" ELSE nominal_speed
        ELSE IF mode = "off" THEN "quiet"
        ELSE IF mode \in {"heat", "cool"} THEN
            IF temp_error > 50 THEN "high"
            ELSE IF temp_error > 30 THEN speed_options[Min(nominal_level + 2, 3) + 1]
            ELSE IF temp_error > 15 THEN speed_options[Min(nominal_level + 1, 3) + 1]
            ELSE IF is_lead THEN
                IF temp_error < 5 THEN "quiet"
                ELSE speed_options[Max(nominal_level - 2, 0) + 1]
            ELSE speed_options[Max(nominal_level - 1, 0) + 1]
        ELSE nominal_speed

\* ------------------------------------------------------------ RateLearner

\* _update_rate that learns from the first sample on.
update_rate_from_first_sample(samples, old_rate, min_samples, window) ==
    LET recent == LastN(samples, window)
        avg_rate == FMul(Frac(SumSeq(recent), Len(recent)),
                         Frac(60, update_interval))
    IN  IF old_rate = Rat(0) THEN avg_rate
        ELSE FAdd(FMul(Frac(7, 10), old_rate), FMul(Frac(3, 10), avg_rate))

\* _update_rate / _update_leakage_rate: the rate after a sample was appended;
\* min_samples is 3 and window 5 for heating and cooling, 2 and 3 for leakage.
update_rate(samples, old_rate, min_samples, window) ==
    IF Len(samples) >= min_samples THEN
        LET recent == LastN(samples, window)
            avg_rate == FMul(Frac(SumSeq(recent), Len(recent)),
                             Frac(60, update_interval))
        IN  IF old_rate = Rat(0) THEN avg_rate
            ELSE FAdd(FMul(Frac(7, 10), old_rate), FMul(Frac(3, 10), avg_rate))
    ELSE old_rate

\* update_temperature_history that records a leakage sample for an idling
\* zone whatever the other zone was last commanded.
update_temperature_history_any_neighbour(zone, temp, mode) ==
    LET th == DequeAppend(zones[zone].temperature_history, temp, HistoryMaxLen)
        mh == DequeAppend(zones[zone].mode_history, mode, HistoryMaxLen)
        same == [temperature_history |-> th, mode_history |-> mh,
                 heating |-> rate_samples["heating"][zone],
                 cooling |-> rate_samples["cooling"][zone],
                 leakage |-> rate_samples["leakage"][zone],
                 heating_rate |-> heating_rate[zone],
                 cooling_rate |-> cooling_rate[zone],
                 leakage_rate |-> leakage_rate[zone]]
    IN  IF Len(th) < 2 THEN same
        ELSE
        LET temp_change == th[Len(th)] - th[Len(th) - 1]
            prev_mode == IF Len(mh) >= 2 THEN mh[Len(mh) - 1] ELSE mode
        IN  IF prev_mode = "heat" /\ temp_change > 0 THEN
                LET s == Append(same.heating, temp_change)
                IN  [same EXCEPT !.heating = s,
                                 !.heating_rate = update_rate(s, @, 3, 5)]
            ELSE IF prev_mode = "cool" /\ temp_change < 0 THEN
                LET s == Append(same.cooling, Abs(temp_change))
                IN  [same EXCEPT !.cooling = s,
                                 !.cooling_rate = update_rate(s, @, 3, 5)]
            ELSE IF prev_mode = "fan_only" /\ Abs(temp_change) > 0 THEN
                LET s == Append(same.leakage, Abs(temp_change))
                IN  [same EXCEPT !.leakage = s,
                                 !.leakage_rate = update_rate(s, @, 2, 3)]
            ELSE same

\* update_temperature_history(zone, temp, mode): the zone's histories, sample
\* windows and rates after the call.
update_temperature_history(zone, temp, mode) ==
    LET th == DequeAppend(zones[zone].temperature_history, temp, HistoryMaxLen)
        mh == DequeAppend(zones[zone].mode_history, mode, HistoryMaxLen)
        same == [temperature_history |-> th, mode_history |-> mh,
                 heating |-> rate_samples["heating"][zone],
                 cooling |-> rate_samples["cooling"][zone],
                 leakage |-> rate_samples["leakage"][zone],
                 heating_rate |-> heating_rate[zone],
                 cooling_rate |-> cooling_rate[zone],
                 leakage_rate |-> leakage_rate[zone]]
    IN  IF Len(th) < 2 THEN same
        ELSE
        LET temp_change == th[Len(th)] - th[Len(th) - 1]
            prev_mode == IF Len(mh) >= 2 THEN mh[Len(mh) - 1] ELSE mode
            other_mode == zones[OtherZone(zone)].last_mode
        IN  IF prev_mode = "heat" /\ temp_change > 0 THEN
                LET s == Append(same.heating, temp_change)
                IN  [same EXCEPT !.heating = s,
                                 !.heating_rate = update_rate(s, @, 3, 5)]
            ELSE IF prev_mode = "cool" /\ temp_change < 0 THEN
                LET s == Append(same.cooling, Abs(temp_change))
                IN  [same EXCEPT !.cooling = s,
                                 !.cooling_rate = update_rate(s, @, 3, 5)]
            ELSE IF prev_mode = "fan_only" /\ other_mode \in {"heat", "cool"} THEN
                IF Abs(temp_change) > 0 THEN
                    \* abs(temp_change) > 0.05: any change of a tenth or more
                    LET s == Append(same.leakage, Abs(temp_change))
                    IN  [same EXCEPT !.leakage = s,
                                     !.leakage_rate = update_rate(s, @, 2, 3)]
                ELSE same
            ELSE same

\* ----------------------------------------------------- LeakageCompensator

\* calculate_time_to_target that takes the error itself for the time (a rate
\* of one, known or not).
calculate_time_to_target_unit_rate(hrate, crate, current_temp, target_temp, mode) ==
    IF mode \notin {"heat", "cool"} THEN Inf
    ELSE Rat(Abs(target_temp - current_temp))

\* calculate_time_to_target with the rates as updated earlier in the tick.
calculate_time_to_target(hrate, crate, current_temp, target_temp, mode) ==
    LET error == Abs(target_temp - current_temp)
        rate == IF mode = "heat" THEN hrate ELSE crate
    IN  IF mode \notin {"heat", "cool"} THEN Inf
        ELSE IF FLessEq(rate, Frac(1, 100)) THEN Inf
        ELSE FDiv(Rat(error), rate)

\* calculate_compensation_offset without the default for an unknown leakage
\* rate.
calculate_compensation_offset_no_default(lead_leakage, time_diff) ==
    IF FLessEq(time_diff, Rat(0)) THEN Rat(0)
    ELSE FMin(FMax(FMul(lead_leakage, time_diff), Rat(min_offset)), Rat(40))

\* calculate_compensation_offset with the lead zone's leakage rate.
calculate_compensation_offset(lead_leakage, time_diff) ==
    IF FLessEq(time_diff, Rat(0)) THEN Rat(0)
    ELSE
    LET leakage == IF FLess(lead_leakage, Frac(1, 10)) THEN Frac(3, 2)
                   ELSE lead_leakage
        offset == FMul(leakage, time_diff)
    IN  FMin(FMax(offset, Rat(min_offset)), Rat(40))

\* ------------------------------------------------------------ ControlLoop

\* async_control_loop that takes the lead status for fan planning from the
\* arbitrated modes, before enforce_minimum_runtime.
control_plan_lead_before_guard(t1, t2, h1, h2) ==
    LET target1 == zones["zone1"].target_setpoint
        target2 == zones["zone2"].target_setpoint
        dynamic_deadband == get_dynamic_deadband
        desired_mode1 == determine_desired_mode("zone1", t1, dynamic_deadband)
        desired_mode2 == determine_desired_mode("zone2", t2, dynamic_deadband)
        error1_abs == Abs(target1 - t1)
        error2_abs == Abs(target2 - t2)
        conflict == modes_conflict(desired_mode1, desired_mode2)
        same_mode == /\ ~conflict
                     /\ desired_mode1 = desired_mode2
                     /\ desired_mode1 \in {"heat", "cool"}
        arb == IF conflict
               THEN resolve_conflict(desired_mode1, desired_mode2,
                                     error1_abs, error2_abs)
               ELSE <<desired_mode1, desired_mode2>>
        ctime1 == calculate_time_to_target(h1.heating_rate, h1.cooling_rate,
                                           t1, target1, desired_mode1)
        ctime2 == calculate_time_to_target(h2.heating_rate, h2.cooling_rate,
                                           t2, target2, desired_mode2)
        comp == IF ~same_mode THEN "none"
                ELSE IF FLess(ctime1, ctime2) /\ ctime1 # Inf THEN "zone1"
                ELSE IF FLess(ctime2, ctime1) /\ ctime2 # Inf THEN "zone2"
                ELSE "none"
        offset == IF comp = "zone1"
                  THEN calculate_compensation_offset(h1.leakage_rate,
                                                     FSub(ctime2, ctime1))
                  ELSE IF comp = "zone2"
                  THEN calculate_compensation_offset(h2.leakage_rate,
                                                     FSub(ctime1, ctime2))
                  ELSE Rat(0)
        internal_setpoint1 ==
            IF comp = "zone1"
            THEN IF desired_mode1 = "heat" THEN FSub(Rat(target1), offset)
                 ELSE FAdd(Rat(target1), offset)
            ELSE Rat(target1)
        internal_setpoint2 ==
            IF comp = "zone2"
            THEN IF desired_mode2 = "heat" THEN FSub(Rat(target2), offset)
                 ELSE FAdd(Rat(target2), offset)
            ELSE Rat(target2)
        guarded == enforce_minimum_runtime(arb[1], arb[2])
        mode1 == guarded[1]
        mode2 == guarded[2]
        time1 == calculate_time_to_target(h1.heating_rate, h1.cooling_rate,
                                          t1, target1, arb[1])
        time2 == calculate_time_to_target(h2.heating_rate, h2.cooling_rate,
                                          t2, target2, arb[2])
        both == arb[1] \in {"heat", "cool"} /\ arb[2] \in {"heat", "cool"}
        is_lead_zone1 ==
            IF both THEN FLess(time1, time2) /\ time1 # Inf
            ELSE arb[1] \in {"heat", "cool"} /\ arb[2] \notin {"heat", "cool"}
        is_lead_zone2 ==
            IF both
            THEN ~(FLess(time1, time2) /\ time1 # Inf)
                 /\ FLess(time2, time1) /\ time2 # Inf
            ELSE arb[2] \in {"heat", "cool"} /\ arb[1] \notin {"heat", "cool"}
    IN  [t1 |-> t1, t2 |-> t2,
         dynamic_deadband |-> dynamic_deadband,
         desired_mode1 |-> desired_mode1, desired_mode2 |-> desired_mode2,
         arb_mode1 |-> arb[1], arb_mode2 |-> arb[2],
         comp |-> comp, offset |-> offset,
         internal_setpoint1 |-> internal_setpoint1,
         internal_setpoint2 |-> internal_setpoint2,
         mode1 |-> mode1, mode2 |-> mode2,
         is_lead_zone1 |-> is_lead_zone1, is_lead_zone2 |-> is_lead_zone2,
         fan_speed1 |-> calculate_optimal_fan_speed("zone1", mode1, error1_abs,
                                                    is_lead_zone1, mode2),
         fan_speed2 |-> calculate_optimal_fan_speed("zone2", mode2, error2_abs,
                                                    is_lead_zone2, mode1)]

\* async_control_loop from the target setpoints to the fan speeds: the
\* locals of the coroutine when it first suspends.  t1, t2 are the
\* temperatures read, h1, h2 the results of update_temperature_history.
\* arb_mode1/2 keep the arbitrated modes that enforce_minimum_runtime
\* receives; mode1/2 are the modes it returns.
control_plan(t1, t2, h1, h2) ==
    LET target1 == zones["zone1"].target_setpoint
        target2 == zones["zone2"].target_setpoint
        dynamic_deadband == get_dynamic_deadband
        desired_mode1 == determine_desired_mode("zone1", t1, dynamic_deadband)
        desired_mode2 == determine_desired_mode("zone2", t2, dynamic_deadband)
        error1_abs == Abs(target1 - t1)
        error2_abs == Abs(target2 - t2)
        conflict == modes_conflict(desired_mode1, desired_mode2)
        same_mode == /\ ~conflict
                     /\ desired_mode1 = desired_mode2
                     /\ desired_mode1 \in {"heat", "cool"}
        arb == IF conflict
               THEN resolve_conflict(desired_mode1, desired_mode2,
                                     error1_abs, error2_abs)
               ELSE <<desired_mode1, desired_mode2>>
        ctime1 == calculate_time_to_target(h1.heating_rate, h1.cooling_rate,
                                           t1, target1, desired_mode1)
        ctime2 == calculate_time_to_target(h2.heating_rate, h2.cooling_rate,
                                           t2, target2, desired_mode2)
        comp == IF ~same_mode THEN "none"
                ELSE IF FLess(ctime1, ctime2) /\ ctime1 # Inf THEN "zone1"
                ELSE IF FLess(ctime2, ctime1) /\ ctime2 # Inf THEN "zone2"
                ELSE "none"
        offset == IF comp = "zone1"
                  THEN calculate_compensation_offset(h1.leakage_rate,
                                                     FSub(ctime2, ctime1))
                  ELSE IF comp = "zone2"
                  THEN calculate_compensation_offset(h2.leakage_rate,
                                                     FSub(ctime1, ctime2))
                  ELSE Rat(0)
        internal_setpoint1 ==
            IF comp = "zone1"
            THEN IF desired_mode1 = "heat" THEN FSub(Rat(target1), offset)
                 ELSE FAdd(Rat(target1), offset)
            ELSE Rat(target1)
        internal_setpoint2 ==
            IF comp = "zone2"
            THEN IF desired_mode2 = "heat" THEN FSub(Rat(target2), offset)
                 ELSE FAdd(Rat(target2), offset)
            ELSE Rat(target2)
        guarded == enforce_minimum_runtime(arb[1], arb[2])
        mode1 == guarded[1]
        mode2 == guarded[2]
        time1 == calculate_time_to_target(h1.heating_rate, h1.cooling_rate,
                                          t1, target1, mode1)
        time2 == calculate_time_to_target(h2.heating_rate, h2.cooling_rate,
                                          t2, target2, mode2)
        both == mode1 \in {"heat", "cool"} /\ mode2 \in {"heat", "cool"}
        is_lead_zone1 ==
            IF both THEN FLess(time1, time2) /\ time1 # Inf
            ELSE mode1 \in {"heat", "cool"} /\ mode2 \notin {"heat", "cool"}
        is_lead_zone2 ==
            IF both
            THEN ~(FLess(time1, time2) /\ time1 # Inf)
                 /\ FLess(time2, time1) /\ time2 # Inf
            ELSE mode2 \in {"heat", "cool"} /\ mode1 \notin {"heat", "cool"}
    IN  [t1 |-> t1, t2 |-> t2,
         dynamic_deadband |-> dynamic_deadband,
         desired_mode1 |-> desired_mode1, desired_mode2 |-> desired_mode2,
         arb_mode1 |-> arb[1], arb_mode2 |-> arb[2],
         comp |-> comp, offset |-> offset,
         internal_setpoint1 |-> internal_setpoint1,
         internal_setpoint2 |-> internal_setpoint2,
         mode1 |-> mode1, mode2 |-> mode2,
         is_lead_zone1 |-> is_lead_zone1, is_lead_zone2 |-> is_lead_zone2,
         fan_speed1 |-> calculate_optimal_fan_speed("zone1", mode1, error1_abs,
                                                    is_lead_zone1, mode2),
         fan_speed2 |-> calculate_optimal_fan_speed("zone2", mode2, error2_abs,
                                                    is_lead_zone2, mode1)]

\* _save_state: the data it hands to Store.async_save; cst is
\* compressor_start_times at the call.
Snapshot(zs, hr, cr, lr, en, cst) ==
    [zone1 |-> [target_setpoint |-> zs["zone1"].target_setpoint,
                target_temp_low |-> zs["zone1"].target_temp_low,
                target_temp_high |-> zs["zone1"].target_temp_high,
                hvac_mode |-> zs["zone1"].hvac_mode,
                nominal_fan_speed |-> zs["zone1"].nominal_fan_speed],
     zone2 |-> [target_setpoint |-> zs["zone2"].target_setpoint,
                target_temp_low |-> zs["zone2"].target_temp_low,
                target_temp_high |-> zs["zone2"].target_temp_high,
                hvac_mode |-> zs["zone2"].hvac_mode,
                nominal_fan_speed |-> zs["zone2"].nominal_fan_speed],
     heating_rate |-> hr, cooling_rate |-> cr, leakage_rate |-> lr,
     enabled |-> en,
     compressor_start_times |-> cst]

\* -------------------------------------------------------------- processes

\* The coroutines that can be in flight together: the interval timer's
\* callback and two service or entity calls.
Procs == {"timer", "cmd1", "cmd2"}
Cmds == {"cmd1", "cmd2"}

\* pc: the await at which the coroutine is suspended.
\*   save                    Store.async_save inside _save_state
\*   mode1 fan1 mode2 fan2   the service call inside _set_climate_mode
\*                           (with the sleep that follows it)
\*   temp1 temp2             the service call inside _set_climate_temperature
\*   done                    the command has completed
\*   setup                   async_setup, between _load_state and its tick
\* kind: the entry point; after: what the caller does when async_control_loop
\* returns ("outer_save": back in DualZoneClimate.async_set_temperature, which
\* saves and runs the loop again).  trace: the command's steps so far.  data:
\* what _save_state is writing.  loc: the locals of async_control_loop.
\* sent: the actuator calls and verification reads (verify: the fan mode
\* read back is the requested one, mismatch: it is not) of this tick, in
\* order.
\* ret: what the service call returned to its caller.
TickPcs == {"mode1", "fan1", "mode2", "fan2", "temp1", "temp2"}

IdleProc ==
    [pc |-> "idle", kind |-> "none", after |-> "return", trace |-> <<>>,
     data |-> None, loc |-> None, sent |-> <<>>, ret |-> None]

InitZone ==
    [temperature_history |-> <<>>, mode_history |-> <<>>, last_mode |-> "off",
     target_setpoint |-> ConfigTargetTemperature,
     target_temp_high |-> ConfigTargetTemperature + 20,
     target_temp_low |-> ConfigTargetTemperature - 20,
     hvac_mode |-> "heat_cool",
     nominal_fan_speed |-> DEFAULT_NOMINAL_FAN_SPEED]

InitEntity ==
    [available |-> TRUE, current_temperature |-> Some(ConfigTargetTemperature),
     hvac_mode |-> "off"]

Init ==
    /\ now = 0
    /\ min_offset = DEFAULT_MIN_OFFSET
    /\ entity = [z \in Zones |-> InitEntity]
    /\ store = None
    /\ zones = [z \in Zones |-> InitZone]
    /\ heating_rate = [z \in Zones |-> Rat(0)]
    /\ cooling_rate = [z \in Zones |-> Rat(0)]
    /\ leakage_rate = [z \in Zones |-> Rat(0)]
    /\ rate_samples = [k \in {"heating", "cooling", "leakage"} |->
                          [z \in Zones |-> <<>>]]
    /\ enabled = TRUE
    /\ iteration_count = 0
    /\ compressor_start_times = <<>>
    /\ compressor_running = FALSE
    /\ compressor_last_start_time = None
    /\ compressor_last_stop_time = None
    /\ proc = [p \in Procs |-> IdleProc]

\* The return from async_control_loop where DualZoneClimate.async_set_temperature
\* does not save and run the loop again.
Returned_without_outer_save(q, cst) ==
    IF q.kind = "timer" THEN IdleProc
    ELSE [q EXCEPT !.pc = "done", !.loc = None, !.sent = <<>>, !.data = None]

\* What coroutine q (about to run, or running, async_control_loop) becomes
\* when the loop returns; cst is compressor_start_times at that moment.
Returned(q, cst) ==
    IF q.after = "outer_save"
    THEN [q EXCEPT !.pc = "save", !.after = "return", !.loc = None,
                   !.sent = <<>>,
                   !.data = Some(Snapshot(zones, heating_rate, cooling_rate,
                                          leakage_rate, enabled, cst))]
    ELSE IF q.kind = "timer" THEN IdleProc
    ELSE [q EXCEPT !.pc = "done", !.loc = None, !.sent = <<>>, !.data = None]

\* async_control_loop, lines 1027-1029: the tick gives up when a temperature
\* could not be read.
temperatures_unreadable(t1, t2) == t1 = None \/ t2 = None

\* async_control_loop without the enabled check.
tick_disabled_never == FALSE

\* async_control_loop, lines 1015-1017: a disabled controller skips the tick.
tick_disabled == ~enabled

\* async_control_loop from its call to its first suspension (lines
\* 1013-1186), called by coroutine p, whose record is q at the call.
ControlLoopEntry(p, q) ==
    LET q1 == [q EXCEPT !.trace = Append(@, "tick")]
        t1 == get_climate_temperature("zone1")
        t2 == get_climate_temperature("zone2")
    IN  IF tick_disabled THEN
            /\ proc' = [proc EXCEPT ![p] = Returned(q1, compressor_start_times)]
            /\ UNCHANGED ctl
        ELSE
            /\ iteration_count < MaxIter
            /\ iteration_count' = iteration_count + 1
            /\ UNCHANGED <<enabled, compressor_start_times, compressor_running,
                           compressor_last_start_time, compressor_last_stop_time>>
            /\ IF temperatures_unreadable(t1, t2) THEN
                   /\ proc' = [proc EXCEPT
                                  ![p] = Returned(q1, compressor_start_times)]
                   /\ UNCHANGED <<zones, heating_rate, cooling_rate,
                                  leakage_rate, rate_samples>>
               ELSE
                   LET h1 == update_temperature_history(
                                 "zone1", t1[1], get_climate_mode("zone1"))
                       h2 == update_temperature_history(
                                 "zone2", t2[1], get_climate_mode("zone2"))
                       h == [zone1 |-> h1, zone2 |-> h2]
                   IN  /\ zones' = [z \in Zones |->
                              [zones[z] EXCEPT
                                  !.temperature_history = h[z].temperature_history,
                                  !.mode_history = h[z].mode_history]]
                       /\ heating_rate' = [z \in Zones |-> h[z].heating_rate]
                       /\ cooling_rate' = [z \in Zones |-> h[z].cooling_rate]
                       /\ leakage_rate' = [z \in Zones |-> h[z].leakage_rate]
                       /\ rate_samples' =
                              [heating |-> [z \in Zones |-> h[z].heating],
                               cooling |-> [z \in Zones |-> h[z].cooling],
                               leakage |-> [z \in Zones |-> h[z].leakage]]
                       /\ proc' = [proc EXCEPT ![p] =
                              [q1 EXCEPT
                                  !.pc = "mode1",
                                  !.loc = Some(control_plan(t1[1], t2[1], h1, h2)),
                                  !.sent = <<"mode1">>]]

\* The state update where the commanded modes are written to the zones' user
\* modes as well.
Bookkeeping_overwrites_user_mode(p) ==
    LET mode1 == proc[p].loc[1].mode1
        mode2 == proc[p].loc[1].mode2
        new_compressor_state == is_compressor_running(mode1, mode2)
        started == new_compressor_state /\ ~compressor_running
        stopped == ~new_compressor_state /\ compressor_running
        cst == IF started
               THEN DequeAppend(compressor_start_times, now, StartTimesMaxLen)
               ELSE compressor_start_times
    IN  /\ zones' = [zones EXCEPT !["zone1"].last_mode = mode1,
                                  !["zone2"].last_mode = mode2,
                                  !["zone1"].hvac_mode = mode1,
                                  !["zone2"].hvac_mode = mode2]
        /\ compressor_start_times' = cst
        /\ compressor_last_start_time' =
               IF started THEN Some(now) ELSE compressor_last_start_time
        /\ compressor_last_stop_time' =
               IF stopped THEN Some(now) ELSE compressor_last_stop_time
        /\ compressor_running' = new_compressor_state
        /\ proc' = [proc EXCEPT ![p] = Returned(proc[p], cst)]
        /\ UNCHANGED <<heating_rate, cooling_rate, leakage_rate, rate_samples,
                       enabled, iteration_count>>

\* The state update that records a start whenever the commanded modes run
\* the compressor, running already or not.
Bookkeeping_records_every_run(p) ==
    LET mode1 == proc[p].loc[1].mode1
        mode2 == proc[p].loc[1].mode2
        new_compressor_state == is_compressor_running(mode1, mode2)
        started == new_compressor_state
        stopped == ~new_compressor_state /\ compressor_running
        cst == IF started
               THEN DequeAppend(compressor_start_times, now, StartTimesMaxLen)
               ELSE compressor_start_times
    IN  /\ zones' = [zones EXCEPT !["zone1"].last_mode = mode1,
                                  !["zone2"].last_mode = mode2]
        /\ compressor_start_times' = cst
        /\ compressor_last_start_time' =
               IF started THEN Some(now) ELSE compressor_last_start_time
        /\ compressor_last_stop_time' =
               IF stopped THEN Some(now) ELSE compressor_last_stop_time
        /\ compressor_running' = new_compressor_state
        /\ proc' = [proc EXCEPT ![p] = Returned(proc[p], cst)]
        /\ UNCHANGED <<heating_rate, cooling_rate, leakage_rate, rate_samples,
                       enabled, iteration_count>>

\* async_control_loop after its last await (lines 1191-1228): the state
\* update, and the return to the caller.
Bookkeeping(p) ==
    LET mode1 == proc[p].loc[1].mode1
        mode2 == proc[p].loc[1].mode2
        new_compressor_state == is_compressor_running(mode1, mode2)
        started == new_compressor_state /\ ~compressor_running
        stopped == ~new_compressor_state /\ compressor_running
        cst == IF started
               THEN DequeAppend(compressor_start_times, now, StartTimesMaxLen)
               ELSE compressor_start_times
    IN  /\ zones' = [zones EXCEPT !["zone1"].last_mode = mode1,
                                  !["zone2"].last_mode = mode2]
        /\ compressor_start_times' = cst
        /\ compressor_last_start_time' =
               IF started THEN Some(now) ELSE compressor_last_start_time
        /\ compressor_last_stop_time' =
               IF stopped THEN Some(now) ELSE compressor_last_stop_time
        /\ compressor_running' = new_compressor_state
        /\ proc' = [proc EXCEPT ![p] = Returned(proc[p], cst)]
        /\ UNCHANGED <<heating_rate, cooling_rate, leakage_rate, rate_samples,
                       enabled, iteration_count>>

\* ---------------------------------------------------------------- actions

\* The async_track_time_interval callback (and the call in async_setup).
TimerTick(p) ==
    /\ p = "timer"
    /\ proc[p].pc = "idle"
    /\ ControlLoopEntry(p, [IdleProc EXCEPT !.kind = "timer"])
    /\ UNCHANGED <<now, min_offset, entity, store>>

\* The restart whose _load_state also keeps a start exactly an hour old.
Restart_keeps_hour_old(downtime, limit) ==
    /\ now + downtime <= limit
    /\ now' = now + downtime
    /\ LET loaded == store # None
           data == store[1]
           cutoff == now' - RecentWindow
       IN  /\ zones' = [z \in Zones |->
                  IF loaded
                  THEN [InitZone EXCEPT
                           !.target_setpoint = data[z].target_setpoint,
                           !.target_temp_low = data[z].target_temp_low,
                           !.target_temp_high = data[z].target_temp_high,
                           !.hvac_mode = data[z].hvac_mode,
                           !.nominal_fan_speed = data[z].nominal_fan_speed]
                  ELSE InitZone]
           /\ heating_rate' =
                  IF loaded THEN data.heating_rate ELSE [z \in Zones |-> Rat(0)]
           /\ cooling_rate' =
                  IF loaded THEN data.cooling_rate ELSE [z \in Zones |-> Rat(0)]
           /\ leakage_rate' =
                  IF loaded THEN data.leakage_rate ELSE [z \in Zones |-> Rat(0)]
           /\ enabled' = IF loaded THEN data.enabled ELSE TRUE
           /\ compressor_start_times' =
                  IF loaded
                  THEN LastN(SelectSeq(data.compressor_start_times,
                                       LAMBDA t : t >= cutoff),
                             StartTimesMaxLen)
                  ELSE <<>>
    /\ rate_samples' = [k \in {"heating", "cooling", "leakage"} |->
                           [z \in Zones |-> <<>>]]
    /\ iteration_count' = 0
    /\ compressor_running' = FALSE
    /\ compressor_last_start_time' = None
    /\ compressor_last_stop_time' = None
    /\ proc' = [p \in Procs |->
                   IF p = "timer"
                   THEN [IdleProc EXCEPT !.pc = "setup", !.kind = "timer"]
                   ELSE IdleProc]
    /\ UNCHANGED <<min_offset, entity, store>>

\* A restart of Home Assistant: the process ends where it stands, with its
\* coroutines, and downtime seconds later the module's async_setup constructs
\* a new controller (__init__) whose async_setup restores the stored state
\* (_load_state) and goes on to its first tick.
Restart(downtime, limit) ==
    /\ now + downtime <= limit
    /\ now' = now + downtime
    /\ LET loaded == store # None
           data == store[1]
           cutoff == now' - RecentWindow
       IN  /\ zones' = [z \in Zones |->
                  IF loaded
                  THEN [InitZone EXCEPT
                           !.target_setpoint = data[z].target_setpoint,
                           !.target_temp_low = data[z].target_temp_low,
                           !.target_temp_high = data[z].target_temp_high,
                           !.hvac_mode = data[z].hvac_mode,
                           !.nominal_fan_speed = data[z].nominal_fan_speed]
                  ELSE InitZone]
           /\ heating_rate' =
                  IF loaded THEN data.heating_rate ELSE [z \in Zones |-> Rat(0)]
           /\ cooling_rate' =
                  IF loaded THEN data.cooling_rate ELSE [z \in Zones |-> Rat(0)]
           /\ leakage_rate' =
                  IF loaded THEN data.leakage_rate ELSE [z \in Zones |-> Rat(0)]
           /\ enabled' = IF loaded THEN data.enabled ELSE TRUE
           /\ compressor_start_times' =
                  IF loaded
                  THEN LastN(SelectSeq(data.compressor_start_times,
                                       LAMBDA t : t > cutoff),
                             StartTimesMaxLen)
                  ELSE <<>>
    /\ rate_samples' = [k \in {"heating", "cooling", "leakage"} |->
                           [z \in Zones |-> <<>>]]
    /\ iteration_count' = 0
    /\ compressor_running' = FALSE
    /\ compressor_last_start_time' = None
    /\ compressor_last_stop_time' = None
    /\ proc' = [p \in Procs |->
                   IF p = "timer"
                   THEN [IdleProc EXCEPT !.pc = "setup", !.kind = "timer"]
                   ELSE IdleProc]
    /\ UNCHANGED <<min_offset, entity, store>>

\* async_setup, line 314: the controller's first tick.
SetupTick(p) ==
    /\ p = "timer"
    /\ proc[p].pc = "setup"
    /\ ControlLoopEntry(p, [IdleProc EXCEPT !.kind = "timer"])
    /\ UNCHANGED <<now, min_offset, entity, store>>

\* _set_climate_mode, lines 629-640: the set_hvac_mode call of zone 1 or 2
\* returns (ok) or raises; a raise leaves _set_climate_mode and is caught by
\* async_control_loop (line 1230), which returns.
SetHvacModeDone(p, ok) ==
    /\ proc[p].pc \in {"mode1", "mode2"}
    /\ LET first == proc[p].pc = "mode1"
           zone == IF first THEN "zone1" ELSE "zone2"
           mode == IF first THEN proc[p].loc[1].mode1 ELSE proc[p].loc[1].mode2
           fan == IF first THEN "fan1" ELSE "fan2"
       IN  IF ok THEN
               /\ entity' = [entity EXCEPT ![zone].hvac_mode = mode]
               /\ proc' = [proc EXCEPT ![p].pc = fan,
                                       ![p].sent = Append(@, fan)]
           ELSE
               /\ proc' = [proc EXCEPT
                              ![p] = Returned(proc[p], compressor_start_times)]
               /\ UNCHANGED entity
    /\ UNCHANGED <<now, min_offset, store, ctl>>

\* _set_climate_mode, lines 644-666: the set_fan_mode call returns, the
\* coroutine sleeps and reads the fan mode back once (ok), or the call raises
\* and the exception is logged; either way _set_climate_mode returns and the
\* loop issues its next call.
SetFanModeDone(p, ok) ==
    /\ proc[p].pc \in {"fan1", "fan2"}
    /\ LET first == proc[p].pc = "fan1"
           verify == IF first THEN "verify1" ELSE "verify2"
           next == IF first THEN "mode2" ELSE "temp1"
       IN  proc' = [proc EXCEPT
               ![p].pc = next,
               ![p].sent = IF ok THEN @ \o <<verify, next>> ELSE Append(@, next)]
    /\ UNCHANGED <<now, min_offset, entity, store, ctl>>

\* The set_fan_mode call whose verification read finds another fan mode is
\* issued again.
SetFanModeMismatch_retries(p) ==
    /\ proc[p].pc \in {"fan1", "fan2"}
    /\ LET first == proc[p].pc = "fan1"
           mismatch == IF first THEN "mismatch1" ELSE "mismatch2"
       IN  proc' = [proc EXCEPT
               ![p].sent = @ \o <<mismatch, proc[p].pc>>]
    /\ UNCHANGED <<now, min_offset, entity, store, ctl>>

\* _set_climate_mode, lines 644-664: the set_fan_mode call returns, the
\* coroutine sleeps and the fan mode it reads back once is not the requested
\* one; a warning is logged, _set_climate_mode returns and the loop issues its
\* next call.
SetFanModeMismatch(p) ==
    /\ proc[p].pc \in {"fan1", "fan2"}
    /\ LET first == proc[p].pc = "fan1"
           mismatch == IF first THEN "mismatch1" ELSE "mismatch2"
           next == IF first THEN "mode2" ELSE "temp1"
       IN  proc' = [proc EXCEPT
               ![p].pc = next,
               ![p].sent = @ \o <<mismatch, next>>]
    /\ UNCHANGED <<now, min_offset, entity, store, ctl>>

\* _set_climate_temperature of zone 1 returns; zone 2's is called.
SetTemperature1Done(p) ==
    /\ proc[p].pc = "temp1"
    /\ proc' = [proc EXCEPT ![p].pc = "temp2", ![p].sent = Append(@, "temp2")]
    /\ UNCHANGED <<now, min_offset, entity, store, ctl>>

\* _set_climate_temperature of zone 2 returns; the loop updates its state.
SetTemperature2Done(p) ==
    /\ proc[p].pc = "temp2"
    /\ Bookkeeping(p)
    /\ UNCHANGED <<now, min_offset, entity, store>>

\* A command's coroutine up to its first suspension, inside _save_state,
\* with the controller state zs, hr, cr, lr, en it has just written.
Suspended(kind, trace, after, zs, hr, cr, lr, en) ==
    [IdleProc EXCEPT
        !.pc = "save", !.kind = kind, !.trace = trace, !.after = after,
        !.data = Some(Snapshot(zs, hr, cr, lr, en, compressor_start_times))]

async_set_target_temperature(p, zone, temperature) ==
    /\ proc[p].pc = "idle"
    /\ LET zs == [zones EXCEPT ![zone].target_setpoint = temperature]
       IN  /\ zones' = zs
           /\ proc' = [proc EXCEPT ![p] =
                  Suspended("set_target_temperature", <<"mutate">>, "return",
                            zs, heating_rate, cooling_rate, leakage_rate, enabled)]
    /\ UNCHANGED <<now, min_offset, entity, store, heating_rate, cooling_rate, leakage_rate,
                   rate_samples, enabled, iteration_count, compressor_start_times,
                   compressor_running, compressor_last_start_time,
                   compressor_last_stop_time>>

async_set_nominal_fan_speed(p, zone, fan_speed) ==
    /\ proc[p].pc = "idle"
    /\ LET zs == [zones EXCEPT ![zone].nominal_fan_speed = fan_speed]
       IN  /\ zones' = zs
           /\ proc' = [proc EXCEPT ![p] =
                  Suspended("set_nominal_fan_speed", <<"mutate">>, "return",
                            zs, heating_rate, cooling_rate, leakage_rate, enabled)]
    /\ UNCHANGED <<now, min_offset, entity, store, heating_rate, cooling_rate, leakage_rate,
                   rate_samples, enabled, iteration_count, compressor_start_times,
                   compressor_running, compressor_last_start_time,
                   compressor_last_stop_time>>

async_set_enable(p, en) ==
    /\ proc[p].pc = "idle"
    /\ enabled' = en
    /\ proc' = [proc EXCEPT ![p] =
           Suspended(IF en THEN "set_enable_true" ELSE "set_enable_false",
                     <<"mutate">>, "return",
                     zones, heating_rate, cooling_rate, leakage_rate, en)]
    /\ UNCHANGED <<now, min_offset, entity, store, zones, heating_rate, cooling_rate,
                   leakage_rate, rate_samples, iteration_count,
                   compressor_start_times, compressor_running,
                   compressor_last_start_time, compressor_last_stop_time>>

\* async_reset_learning that zeroes the rates and keeps the sample windows.
async_reset_learning_keeps_samples(p) ==
    /\ proc[p].pc = "idle"
    /\ LET zero == [z \in Zones |-> Rat(0)]
       IN  /\ heating_rate' = zero
           /\ cooling_rate' = zero
           /\ leakage_rate' = zero
           /\ proc' = [proc EXCEPT ![p] =
                  Suspended("reset_learning", <<"mutate">>, "return",
                            zones, zero, zero, zero, enabled)]
    /\ UNCHANGED <<now, min_offset, entity, store, zones, rate_samples, enabled,
                   iteration_count, compressor_start_times, compressor_running,
                   compressor_last_start_time, compressor_last_stop_time>>

async_reset_learning(p) ==
    /\ proc[p].pc = "idle"
    /\ LET zero == [z \in Zones |-> Rat(0)]
       IN  /\ heating_rate' = zero
           /\ cooling_rate' = zero
           /\ leakage_rate' = zero
           /\ rate_samples' = [k \in {"heating", "cooling", "leakage"} |->
                                  [z \in Zones |-> <<>>]]
           /\ proc' = [proc EXCEPT ![p] =
                  Suspended("reset_learning", <<"mutate">>, "return",
                            zones, zero, zero, zero, enabled)]
    /\ UNCHANGED <<now, min_offset, entity, store, zones, enabled, iteration_count,
                   compressor_start_times, compressor_running,
                   compressor_last_start_time, compressor_last_stop_time>>

\* DualZoneClimate.async_set_temperature.  kw.range is None or <<<<low, high>>>>,
\* kw.temperature None or <<t>> (read only without a range), kw.hvac_mode
\* None or <<mode>>.  With an hvac_mode, async_set_hvac_mode runs first and
\* its _save_state is the first suspension.
climate_async_set_temperature(p, zone, kw) ==
    /\ proc[p].pc = "idle"
    /\ LET z0 == zones[zone]
           z1 == IF kw.range # None THEN
                     [z0 EXCEPT !.target_temp_high = kw.range[1][2],
                                !.target_temp_low = kw.range[1][1],
                                !.target_setpoint =
                                    (kw.range[1][2] + kw.range[1][1]) \div 2]
                 ELSE IF kw.temperature # None THEN
                     [z0 EXCEPT !.target_setpoint = kw.temperature[1],
                                !.target_temp_low = kw.temperature[1] - 20,
                                !.target_temp_high = kw.temperature[1] + 20]
                 ELSE z0
           z2 == IF kw.hvac_mode # None
                 THEN [z1 EXCEPT !.hvac_mode = kw.hvac_mode[1]]
                 ELSE z1
           zs == [zones EXCEPT ![zone] = z2]
       IN  /\ zones' = zs
           /\ proc' = [proc EXCEPT ![p] =
                  IF kw.hvac_mode # None
                  THEN Suspended("climate_set_temperature", <<"mutate", "mutate">>,
                                 "outer_save", zs, heating_rate, cooling_rate,
                                 leakage_rate, enabled)
                  ELSE Suspended("climate_set_temperature", <<"mutate">>,
                                 "return", zs, heating_rate, cooling_rate,
                                 leakage_rate, enabled)]
    /\ UNCHANGED <<now, min_offset, entity, store, heating_rate, cooling_rate, leakage_rate,
                   rate_samples, enabled, iteration_count, compressor_start_times,
                   compressor_running, compressor_last_start_time,
                   compressor_last_stop_time>>

climate_async_set_hvac_mode(p, zone, hvac_mode) ==
    /\ proc[p].pc = "idle"
    /\ LET zs == [zones EXCEPT ![zone].hvac_mode = hvac_mode]
       IN  /\ zones' = zs
           /\ proc' = [proc EXCEPT ![p] =
                  Suspended("climate_set_hvac_mode", <<"mutate">>, "return",
                            zs, heating_rate, cooling_rate, leakage_rate, enabled)]
    /\ UNCHANGED <<now, min_offset, entity, store, heating_rate, cooling_rate, leakage_rate,
                   rate_samples, enabled, iteration_count, compressor_start_times,
                   compressor_running, compressor_last_start_time,
                   compressor_last_stop_time>>

climate_async_set_fan_mode(p, zone, fan_mode) ==
    /\ proc[p].pc = "idle"
    /\ LET zs == [zones EXCEPT ![zone].nominal_fan_speed = fan_mode]
       IN  /\ zones' = zs
           /\ proc' = [proc EXCEPT ![p] =
                  Suspended("climate_set_fan_mode", <<"mutate">>, "return",
                            zs, heating_rate, cooling_rate, leakage_rate, enabled)]
    /\ UNCHANGED <<now, min_offset, entity, store, heating_rate, cooling_rate, leakage_rate,
                   rate_samples, enabled, iteration_count, compressor_start_times,
                   compressor_running, compressor_last_start_time,
                   compressor_last_stop_time>>

\* async_get_state: returns the setpoints, nominal fan speeds, the enabled
\* flag and the learned rates; it does not suspend.
async_get_state(p) ==
    /\ proc[p].pc = "idle"
    /\ proc' = [proc EXCEPT ![p] =
           [IdleProc EXCEPT
               !.pc = "done", !.kind = "get_state",
               !.ret = Some([zone1 |->
                                [target_setpoint |-> zones["zone1"].target_setpoint,
                                 nominal_fan_speed |-> zones["zone1"].nominal_fan_speed],
                             zone2 |->
                                [target_setpoint |-> zones["zone2"].target_setpoint,
                                 nominal_fan_speed |-> zones["zone2"].nominal_fan_speed],
                             enabled |-> enabled,
                             heating_rate |-> heating_rate,
                             cooling_rate |-> cooling_rate,
                             leakage_rate |-> leakage_rate])]]
    /\ UNCHANGED <<now, min_offset, entity, store, ctl>>

\* _save_state's Store.async_save returns; the command goes on to its next
\* suspension: async_reset_learning completes; async_set_enable runs the loop
\* only if self.enabled holds now; every other command runs the loop.
SaveDone(p) ==
    /\ proc[p].pc = "save"
    /\ store' = proc[p].data
    /\ LET q == [proc[p] EXCEPT !.data = None, !.trace = Append(@, "persist")]
       IN  IF \/ q.kind = "reset_learning"
              \/ (q.kind \in {"set_enable_true", "set_enable_false"} /\ ~enabled)
           THEN /\ proc' = [proc EXCEPT ![p] = [q EXCEPT !.pc = "done"]]
                /\ UNCHANGED ctl
           ELSE ControlLoopEntry(p, q)
    /\ UNCHANGED <<now, min_offset, entity>>

\* The command's coroutine has completed.
CommandReturn(p) ==
    /\ proc[p].pc = "done"
    /\ proc' = [proc EXCEPT ![p] = IdleProc]
    /\ UNCHANGED <<now, min_offset, entity, store, ctl>>

\* ------------------------------------------------------------ environment

\* The clock advances by step seconds, up to limit.
Advance(step, limit) ==
    /\ now + step <= limit
    /\ now' = now + step
    /\ UNCHANGED <<min_offset, entity, store, ctl, proc>>

\* A physical climate entity reports a temperature (temp is <<t>>) or loses
\* its current_temperature attribute (temp is None).
ReportTemperature(zone, temp) ==
    /\ entity[zone].current_temperature # temp
    /\ entity' = [entity EXCEPT ![zone].current_temperature = temp]
    /\ UNCHANGED <<now, min_offset, store, ctl, proc>>

\* A physical climate entity becomes unavailable or available again.
SetAvailable(zone, b) ==
    /\ entity[zone].available # b
    /\ entity' = [entity EXCEPT ![zone].available = b]
    /\ UNCHANGED <<now, min_offset, store, ctl, proc>>

\* --------------------------------------------------------- specifications

\* One step of a tick in flight: an awaited actuator call returns or raises.
TickStep(p) ==
    \/ \E ok \in BOOLEAN : SetHvacModeDone(p, ok)
    \/ \E ok \in BOOLEAN : SetFanModeDone(p, ok)
    \/ SetTemperature1Done(p)
    \/ SetTemperature2Done(p)

\* The same step where every actuator call succeeds.
OkStep(p) ==
    \/ SetHvacModeDone(p, TRUE)
    \/ SetFanModeDone(p, TRUE)
    \/ SetTemperature1Done(p)
    \/ SetTemperature2Done(p)

\* No other coroutine is inside async_control_loop.
NoOtherTick(p) == \A q \in Procs \ {p} : proc[q].pc \notin TickPcs

\* Spec: the timer and one command interleave freely and actuator calls may
\* fail.  Zone 1 drifts between 65.0 and 68.0 F; the command changes zone 1's
\* user mode.
Next ==
    \/ iteration_count < MaxIterAny /\ TimerTick("timer")
    \/ \E p \in {"timer", "cmd1"} : TickStep(p)
    \/ \E m \in {"heat", "off"} : climate_async_set_hvac_mode("cmd1", "zone1", m)
    \/ iteration_count < MaxIterAny /\ SaveDone("cmd1")
    \/ CommandReturn("cmd1")
    \/ \E t \in {650, 680} : ReportTemperature("zone1", Some(t))

Spec == Init /\ [][Next]_vars

\* SpecModes: the timer and one command interleave freely; zone 1 asks for
\* heat at 65.0 F, zone 2 for cooling at 75.0 F or, once its user mode is dry,
\* for dry at 68.0 F; the clock can pass min_compressor_off_time.
NextModes ==
    \/ iteration_count < MaxIterAny /\ TimerTick("timer")
    \/ \E p \in {"timer", "cmd1"} : OkStep(p)
    \/ climate_async_set_hvac_mode("cmd1", "zone2", "dry")
    \/ iteration_count < MaxIterAny /\ SaveDone("cmd1")
    \/ CommandReturn("cmd1")
    \/ Advance(min_compressor_off_time, MaxLongAdvances * min_compressor_off_time)
    \/ \E t \in {650, 680} : ReportTemperature("zone1", Some(t))
    \/ ReportTemperature("zone2", Some(750))

SpecModes == Init /\ [][NextModes]_vars

\* SpecSeq: ticks run one at a time (a tick starts only when no other
\* coroutine is inside the loop); the clock advances in update intervals at any
\* point, also inside a tick; zone 1 drifts, and a command can turn it off.
NextSeq ==
    \/ iteration_count < MaxIterSeq /\ NoOtherTick("timer") /\ TimerTick("timer")
    \/ \E p \in {"timer", "cmd1"} : OkStep(p)
    \/ climate_async_set_hvac_mode("cmd1", "zone1", "off")
    \/ iteration_count < MaxIterSeq /\ NoOtherTick("cmd1") /\ SaveDone("cmd1")
    \/ CommandReturn("cmd1")
    \/ Advance(update_interval, MaxAdvances * update_interval)
    \/ \E t \in {650, 680} : ReportTemperature("zone1", Some(t))

SpecSeq == Init /\ [][NextSeq]_vars

\* SpecRestart: ticks run one at a time and Home Assistant restarts, a minute
\* of downtime each time; a command persists the state in between.
NextRestart ==
    \/ Restart(update_interval, MaxLongAdvances * min_compressor_off_time)
    \/ NoOtherTick("timer") /\ SetupTick("timer")
    \/ iteration_count < MaxIterCmds /\ NoOtherTick("timer") /\ TimerTick("timer")
    \/ \E p \in {"timer", "cmd1"} : OkStep(p)
    \/ climate_async_set_fan_mode("cmd1", "zone1", "high")
    \/ iteration_count < MaxIterCmds /\ NoOtherTick("cmd1") /\ SaveDone("cmd1")
    \/ CommandReturn("cmd1")
    \/ \E t \in {650, 680} : ReportTemperature("zone1", Some(t))

SpecRestart == Init /\ [][NextRestart]_vars

\* SpecSensors: the sensors come and go (zone 1's entity becomes unavailable,
\* zone 2's loses its current_temperature) and the controller is disabled and
\* enabled, while the timer and one command interleave.
NextSensors ==
    \/ iteration_count < MaxIterAny /\ TimerTick("timer")
    \/ \E p \in {"timer", "cmd1"} : OkStep(p)
    \/ \E en \in BOOLEAN : async_set_enable("cmd1", en)
    \/ climate_async_set_fan_mode("cmd1", "zone1", "high")
    \/ iteration_count < MaxIterAny /\ SaveDone("cmd1")
    \/ CommandReturn("cmd1")
    \/ \E t \in {650, 680} : ReportTemperature("zone1", Some(t))
    \/ \E t \in {None, Some(680)} : ReportTemperature("zone2", t)
    \/ \E b \in BOOLEAN : SetAvailable("zone1", b)

SpecSensors == Init /\ [][NextSensors]_vars

\* SpecCmds: every command of the controller and of the climate entities, on
\* zone 1, interleaved with a second caller that enables and disables.
KwVals ==
    {[range |-> Some(<<700, 740>>), temperature |-> None, hvac_mode |-> None],
     [range |-> None, temperature |-> Some(700), hvac_mode |-> None],
     [range |-> None, temperature |-> Some(700), hvac_mode |-> Some("heat")]}

Command(p) ==
    \/ async_set_target_temperature(p, "zone1", 720)
    \/ async_set_nominal_fan_speed(p, "zone1", "high")
    \/ \E en \in BOOLEAN : async_set_enable(p, en)
    \/ async_reset_learning(p)
    \/ \E kw \in KwVals : climate_async_set_temperature(p, "zone1", kw)
    \/ climate_async_set_hvac_mode(p, "zone1", "heat_cool")
    \/ climate_async_set_fan_mode(p, "zone1", "quiet")

NextCmds ==
    \/ Command("cmd1")
    \/ \E en \in BOOLEAN : async_set_enable("cmd2", en)
    \/ \E p \in Cmds : iteration_count < MaxIterCmds /\ SaveDone(p)
    \/ \E p \in Cmds : OkStep(p)
    \/ \E p \in Cmds : CommandReturn(p)

SpecCmds == Init /\ [][NextCmds]_vars

\* SpecPlan: the controller starts (__init__, _load_state) from a stored
\* state and runs its first tick; zone 1 can then reach its target before a
\* second tick.  The stored states and the temperatures at start come in two
\* families.  PlanTable: every pair of user modes, zone 1 at each temperature
\* next to a threshold of determine_desired_mode (deadband 0.5 and 1.5) and of
\* calculate_optimal_fan_speed, every nominal fan speed, with and without
\* three compressor starts in the last hour; no learned rates.  PlanRates:
\* both zones in range mode (or zone 2 in dry), each at a temperature that
\* asks for heat, for cooling or for neither; learned rates unknown, 0.1 and
\* 0.2 F/min; leakage unknown or 0.2 F/min; min_offset 0.3 or 5.0.
UserModes == {"heat_cool", "heat", "cool", "dry", "off"}

TableTemps ==
    {629, 630, 631, 644, 645, 654, 655, 664, 665, 674, 675, 680,
     685, 686, 695, 696, 705, 706, 715, 716, 729, 730}

RateTemps == {620, 630, 650, 654, 680, 706, 730}

PlanTable ==
    [mode : [Zones -> UserModes],
     temp : {f \in [Zones -> TableTemps] : f["zone2"] \in {630, 680, 730}},
     nominal : {f \in [Zones -> FanSpeed] :
                   f["zone2"] = DEFAULT_NOMINAL_FAN_SPEED},
     rate : {[z \in Zones |-> Rat(0)]},
     leakage : {[z \in Zones |-> Rat(0)]},
     min_offset : {DEFAULT_MIN_OFFSET},
     starts : {<<>>, <<RecentWindow - 600, RecentWindow - 400,
                       RecentWindow - 200>>}]

PlanRates ==
    [mode : {f \in [Zones -> UserModes] :
                f["zone1"] = "heat_cool" /\ f["zone2"] \in {"heat_cool", "dry"}},
     temp : [Zones -> RateTemps],
     nominal : {[z \in Zones |-> DEFAULT_NOMINAL_FAN_SPEED]},
     rate : [Zones -> {Rat(0), Rat(1), Rat(2)}],
     leakage : {[z \in Zones |-> Rat(0)], [z \in Zones |-> Rat(2)]},
     min_offset : {DEFAULT_MIN_OFFSET, 50},
     starts : {<<>>}]

\* The state after __init__ and _load_state, at time RecentWindow, where the
\* store holds what an earlier run saved.
InitPlan ==
    \E in \in PlanTable \cup PlanRates :
        LET zs == [z \in Zones |->
                      [InitZone EXCEPT !.hvac_mode = in.mode[z],
                                       !.nominal_fan_speed = in.nominal[z]]]
        IN  /\ now = RecentWindow
            /\ min_offset = in.min_offset
            /\ entity = [z \in Zones |->
                   [InitEntity EXCEPT !.current_temperature = Some(in.temp[z])]]
            /\ store = Some(Snapshot(zs, in.rate, in.rate, in.leakage, TRUE,
                                     in.starts))
            /\ zones = zs
            /\ heating_rate = in.rate
            /\ cooling_rate = in.rate
            /\ leakage_rate = in.leakage
            /\ rate_samples = [k \in {"heating", "cooling", "leakage"} |->
                                  [z \in Zones |-> <<>>]]
            /\ enabled = TRUE
            /\ iteration_count = 0
            /\ compressor_start_times = in.starts
            /\ compressor_running = FALSE
            /\ compressor_last_start_time = None
            /\ compressor_last_stop_time = None
            /\ proc = [p \in Procs |->
                          IF p = "timer"
                          THEN [IdleProc EXCEPT !.pc = "setup", !.kind = "timer"]
                          ELSE IdleProc]

NextPlan ==
    \/ SetupTick("timer")
    \/ iteration_count < MaxIterCmds /\ TimerTick("timer")
    \/ OkStep("timer")
    \/ ReportTemperature("zone1", Some(ConfigTargetTemperature))

SpecPlan == InitPlan /\ [][NextPlan]_vars

\* SpecStarts: the controller comes up with a stored list of compressor
\* starts, 40, 20 and 10 minutes old; ticks run one at a time and the clock
\* advances StartGap seconds at a time, so that a stored start becomes
\* exactly an hour old and then older.  Zone 1 is 1.0 F or 3.0 F below its
\* low target, or on target.
StartGap == 20 * update_interval
StartLists ==
    {<<>>,
     <<RecentWindow - StartGap \div 2>>,
     <<RecentWindow - StartGap, RecentWindow - StartGap \div 2>>,
     <<RecentWindow - 2 * StartGap, RecentWindow - StartGap,
       RecentWindow - StartGap \div 2>>}
StartTemps == {630, 650, ConfigTargetTemperature}
PlanStarts ==
    [mode : {[z \in Zones |-> "heat_cool"]},
     temp : {f \in [Zones -> StartTemps] :
                 f["zone1"] # ConfigTargetTemperature
                 /\ f["zone2"] = ConfigTargetTemperature},
     nominal : {[z \in Zones |-> DEFAULT_NOMINAL_FAN_SPEED]},
     rate : {[z \in Zones |-> Rat(0)]},
     leakage : {[z \in Zones |-> Rat(0)]},
     min_offset : {DEFAULT_MIN_OFFSET},
     starts : StartLists]

\* The state after __init__ and _load_state where the store holds the
\* settings, rates and starts of in.
LoadedState(in) ==
    LET zs == [z \in Zones |->
                  [InitZone EXCEPT !.hvac_mode = in.mode[z],
                                   !.nominal_fan_speed = in.nominal[z]]]
    IN  /\ now = RecentWindow
        /\ min_offset = in.min_offset
        /\ entity = [z \in Zones |->
               [InitEntity EXCEPT !.current_temperature = Some(in.temp[z])]]
        /\ store = Some(Snapshot(zs, in.rate, in.rate, in.leakage, TRUE,
                                 in.starts))
        /\ zones = zs
        /\ heating_rate = in.rate
        /\ cooling_rate = in.rate
        /\ leakage_rate = in.leakage
        /\ rate_samples = [k \in {"heating", "cooling", "leakage"} |->
                              [z \in Zones |-> <<>>]]
        /\ enabled = TRUE
        /\ iteration_count = 0
        /\ compressor_start_times = in.starts
        /\ compressor_running = FALSE
        /\ compressor_last_start_time = None
        /\ compressor_last_stop_time = None
        /\ proc = [p \in Procs |->
                      IF p = "timer"
                      THEN [IdleProc EXCEPT !.pc = "setup", !.kind = "timer"]
                      ELSE IdleProc]

InitStarts == \E in \in PlanStarts : LoadedState(in)

NextStarts ==
    \/ SetupTick("timer")
    \/ iteration_count < MaxIterAny /\ TimerTick("timer")
    \/ OkStep("timer")
    \/ Advance(StartGap, RecentWindow + MaxStartAdvances * StartGap)
    \/ \E t \in StartTemps : ReportTemperature("zone1", Some(t))

SpecStarts == InitStarts /\ [][NextStarts]_vars

\* SpecLearn: zone 1, 3.0 F below its low target when the controller comes
\* up, warms 0.1 F at a time, at most once per tick so far, while the timer
\* ticks.
LearnTemps == {t \in 630..(630 + MaxIterLearn) : t - 630 <= iteration_count}
PlanLearn ==
    [mode : {[z \in Zones |-> "heat_cool"]},
     temp : {[zone1 |-> 630, zone2 |-> ConfigTargetTemperature]},
     nominal : {[z \in Zones |-> DEFAULT_NOMINAL_FAN_SPEED]},
     rate : {[z \in Zones |-> Rat(0)]},
     leakage : {[z \in Zones |-> Rat(0)]},
     min_offset : {DEFAULT_MIN_OFFSET},
     starts : {<<>>}]

InitLearn == \E in \in PlanLearn : LoadedState(in)

ZoneWarms(zone) ==
    \E t \in LearnTemps :
        /\ entity[zone].current_temperature = Some(t - 1)
        /\ ReportTemperature(zone, Some(t))

NextLearn ==
    \/ SetupTick("timer")
    \/ iteration_count < MaxIterLearn /\ TimerTick("timer")
    \/ OkStep("timer")
    \/ ZoneWarms("zone1")

SpecLearn == InitLearn /\ [][NextLearn]_vars

\* SpecReset: the controller comes up with learned rates of 0.1 F/min (or
\* none) and zone 1 warms as in SpecLearn; ticks run one at a time, one
\* caller resets the learning and another reads the state, at any point.
PlanReset ==
    [mode : {[z \in Zones |-> "heat_cool"]},
     temp : {[zone1 |-> 630, zone2 |-> ConfigTargetTemperature]},
     nominal : {[z \in Zones |-> DEFAULT_NOMINAL_FAN_SPEED]},
     rate : {[z \in Zones |-> Rat(0)], [z \in Zones |-> Rat(1)]},
     leakage : {[z \in Zones |-> Rat(0)], [z \in Zones |-> Rat(2)]},
     min_offset : {DEFAULT_MIN_OFFSET},
     starts : {<<>>}]

InitReset == \E in \in PlanReset : LoadedState(in)

NextReset ==
    \/ SetupTick("timer")
    \/ iteration_count < MaxIterSeq /\ NoOtherTick("timer") /\ TimerTick("timer")
    \/ OkStep("timer")
    \/ async_reset_learning("cmd1")
    \/ SaveDone("cmd1")
    \/ async_get_state("cmd2")
    \/ \E p \in Cmds : CommandReturn(p)
    \/ ZoneWarms("zone1")

SpecReset == InitReset /\ [][NextReset]_vars

\* SpecBuffers: the controller comes up with no stored start, or with one
\* fewer than or as many as compressor_start_times can hold, a minute apart;
\* zone 1 asks for heat throughout, ticks run one at a time, a command
\* persists the state and Home Assistant restarts, a minute of downtime each
\* time.
FullStartList(n) ==
    [i \in 1..n |-> RecentWindow - (n + 1 - i) * update_interval]
PlanBuffers ==
    [mode : {[z \in Zones |-> "heat_cool"]},
     temp : {[zone1 |-> 630, zone2 |-> ConfigTargetTemperature]},
     nominal : {[z \in Zones |-> DEFAULT_NOMINAL_FAN_SPEED]},
     rate : {[z \in Zones |-> Rat(0)]},
     leakage : {[z \in Zones |-> Rat(0)]},
     min_offset : {DEFAULT_MIN_OFFSET},
     starts : {<<>>, FullStartList(StartTimesMaxLen - 1),
               FullStartList(StartTimesMaxLen)}]

InitBuffers == \E in \in PlanBuffers : LoadedState(in)

NextBuffers ==
    \/ Restart(update_interval,
               RecentWindow + MaxLongAdvances * min_compressor_off_time)
    \/ NoOtherTick("timer") /\ SetupTick("timer")
    \/ NoOtherTick("timer") /\ TimerTick("timer")
    \/ \E p \in {"timer", "cmd1"} : OkStep(p)
    \/ climate_async_set_fan_mode("cmd1", "zone1", "high")
    \/ NoOtherTick("cmd1") /\ SaveDone("cmd1")
    \/ CommandReturn("cmd1")

SpecBuffers == InitBuffers /\ [][NextBuffers]_vars

\* SpecReload: the controller comes up with stored starts as in SpecStarts
\* and learned rates of 0.1 F/min or none; commands change zone 1's setpoint,
\* zone 2's range and user mode and the enabled flag and persist the state,
\* ticks run one at a time, and Home Assistant restarts after StartGap
\* seconds of downtime, so that stored starts are an hour old, or older, at
\* load time.
PlanReload ==
    [mode : {[z \in Zones |-> "heat_cool"]},
     temp : {[zone1 |-> 630, zone2 |-> ConfigTargetTemperature]},
     nominal : {[z \in Zones |-> DEFAULT_NOMINAL_FAN_SPEED]},
     rate : {[z \in Zones |-> Rat(0)], [z \in Zones |-> Rat(1)]},
     leakage : {[z \in Zones |-> Rat(0)]},
     min_offset : {DEFAULT_MIN_OFFSET},
     starts : StartLists]

InitReload == \E in \in PlanReload : LoadedState(in)

NextReload ==
    \/ Restart(StartGap, RecentWindow + MaxStartAdvances * StartGap)
    \/ NoOtherTick("timer") /\ SetupTick("timer")
    \/ \E p \in {"timer", "cmd1"} : OkStep(p)
    \/ async_set_target_temperature("cmd1", "zone1", 690)
    \/ climate_async_set_temperature(
           "cmd1", "zone2",
           [range |-> Some(<<640, 720>>), temperature |-> None,
            hvac_mode |-> Some("heat")])
    \/ async_set_nominal_fan_speed("cmd1", "zone1", "high")
    \/ async_set_enable("cmd1", FALSE)
    \/ iteration_count < MaxIterAny /\ NoOtherTick("cmd1") /\ SaveDone("cmd1")
    \/ CommandReturn("cmd1")

SpecReload == InitReload /\ [][NextReload]_vars

\* SpecActuate: the timer and one command interleave freely; every actuator
\* call may fail, and the fan mode read back after a set_fan_mode call may be
\* the requested one or not.  Zone 1 drifts between 65.0 and 68.0 F.
NextActuate ==
    \/ iteration_count < MaxIterCmds /\ TimerTick("timer")
    \/ \E p \in {"timer", "cmd1"} : TickStep(p)
    \/ \E p \in {"timer", "cmd1"} : SetFanModeMismatch(p)
    \/ climate_async_set_fan_mode("cmd1", "zone1", "high")
    \/ iteration_count < MaxIterCmds /\ SaveDone("cmd1")
    \/ CommandReturn("cmd1")
    \/ \E t \in {650, 680} : ReportTemperature("zone1", Some(t))

SpecActuate == Init /\ [][NextActuate]_vars

\* SpecSamples: the controller comes up with zone 1 3.0 F below its low
\* target, 1.0 F above its high target or on target, and with learned rates
\* of 0.1 F/min or none; between ticks either zone's temperature moves up
\* 0.1 F and back; ticks run one at a time and a caller resets the learning.
SampleTemps == {650, 710, ConfigTargetTemperature}
PlanSamples ==
    [mode : {[z \in Zones |-> "heat_cool"]},
     temp : {f \in [Zones -> SampleTemps] :
                 f["zone2"] = ConfigTargetTemperature},
     nominal : {[z \in Zones |-> DEFAULT_NOMINAL_FAN_SPEED]},
     rate : {[z \in Zones |-> Rat(0)], [z \in Zones |-> Rat(1)]},
     leakage : {[z \in Zones |-> Rat(0)]},
     min_offset : {DEFAULT_MIN_OFFSET},
     starts : {<<>>}]

InitSamples == \E in \in PlanSamples : LoadedState(in)

\* The zone's temperature moves 0.1 F above one of SampleTemps, or back.
ZoneDrifts(zone) ==
    \E t \in SampleTemps :
        \/ /\ entity[zone].current_temperature = Some(t)
           /\ ReportTemperature(zone, Some(t + 1))
        \/ /\ entity[zone].current_temperature = Some(t + 1)
           /\ ReportTemperature(zone, Some(t))

NextSamples ==
    \/ SetupTick("timer")
    \/ iteration_count < MaxIterSeq /\ TimerTick("timer")
    \/ OkStep("timer")
    \/ async_reset_learning("cmd1")
    \/ SaveDone("cmd1")
    \/ CommandReturn("cmd1")
    \/ \E z \in Zones : proc["timer"].pc = "idle" /\ ZoneDrifts(z)

SpecSamples == InitSamples /\ [][NextSamples]_vars

\* SpecRateLearn: zone 1 is 5.0 F below its low target and warms, or 3.0 F above
\* its high target and cools, by 0.1 F a tick at most; zone 2 idles on target
\* and moves 0.1 F up and back; the rates stored were 0.1 F/min; ticks
\* run one at a time and a caller resets the learning.
MaxIterRate == 5
WarmTemps == {t \in 630..(630 + MaxIterRate) : t - 630 <= iteration_count}
CoolTemps == {t \in (730 - MaxIterRate)..730 : 730 - t <= iteration_count}
PlanRateLearn ==
    [mode : {[z \in Zones |-> "heat_cool"]},
     temp : {[zone1 |-> 630, zone2 |-> ConfigTargetTemperature],
             [zone1 |-> 730, zone2 |-> ConfigTargetTemperature]},
     nominal : {[z \in Zones |-> DEFAULT_NOMINAL_FAN_SPEED]},
     rate : {[z \in Zones |-> Rat(1)]},
     leakage : {[z \in Zones |-> Rat(0)]},
     min_offset : {DEFAULT_MIN_OFFSET},
     starts : {<<>>}]

InitRateLearn == \E in \in PlanRateLearn : LoadedState(in)

\* Zone 1 moves 0.1 F towards its target.
ZoneConditioned ==
    \/ \E t \in WarmTemps :
           /\ entity["zone1"].current_temperature = Some(t - 1)
           /\ ReportTemperature("zone1", Some(t))
    \/ \E t \in CoolTemps :
           /\ entity["zone1"].current_temperature = Some(t + 1)
           /\ ReportTemperature("zone1", Some(t))

NextRateLearn ==
    \/ SetupTick("timer")
    \/ iteration_count < MaxIterRate /\ TimerTick("timer")
    \/ OkStep("timer")
    \/ async_reset_learning("cmd1")
    \/ SaveDone("cmd1")
    \/ CommandReturn("cmd1")
    \/ proc["timer"].pc = "idle" /\ ZoneConditioned
    \/ proc["timer"].pc = "idle" /\ ZoneDrifts("zone2")

SpecRateLearn == InitRateLearn /\ [][NextRateLearn]_vars

\* SpecOff: zone 1 was switched off before the controller came up, or is
\* 3.0 F below its low target and switched off by a caller later; zone 2 is
\* on target or 3.0 F below its low target and moves between the two; the
\* clock advances by half the minimum off-time; ticks run one at a time.
HalfOffTime == min_compressor_off_time \div 2
PlanOff ==
    [mode : {[zone1 |-> "off", zone2 |-> "heat_cool"],
             [z \in Zones |-> "heat_cool"]},
     temp : {[zone1 |-> 650, zone2 |-> 650],
             [zone1 |-> 650, zone2 |-> ConfigTargetTemperature]},
     nominal : {[z \in Zones |-> DEFAULT_NOMINAL_FAN_SPEED]},
     rate : {[z \in Zones |-> Rat(0)]},
     leakage : {[z \in Zones |-> Rat(0)]},
     min_offset : {DEFAULT_MIN_OFFSET},
     starts : {<<>>}]

InitOff == \E in \in PlanOff : LoadedState(in)

NextOff ==
    \/ SetupTick("timer")
    \/ iteration_count < MaxIterAny /\ NoOtherTick("timer") /\ TimerTick("timer")
    \/ \E p \in {"timer", "cmd1"} : OkStep(p)
    \/ climate_async_set_hvac_mode("cmd1", "zone1", "off")
    \/ iteration_count < MaxIterAny /\ NoOtherTick("cmd1") /\ SaveDone("cmd1")
    \/ CommandReturn("cmd1")
    \/ Advance(HalfOffTime, RecentWindow + MaxStartAdvances * HalfOffTime)
    \/ \E t \in {650, ConfigTargetTemperature} :
           ReportTemperature("zone2", Some(t))

SpecOff == InitOff /\ [][NextOff]_vars

\* SpecLive: the interval callback alone drives the controller, which stays
\* enabled; async_track_time_interval runs a tick every update_interval
\* seconds (line 321), so the tick number k is due at k * update_interval and
\* the clock reaches the next multiple only after the tick due now has been
\* started; zone 1's set_hvac_mode call returns or raises; zone 1 asks for heat, stops
\* asking and asks again.  The event loop resumes every awaited call that has completed,
\* fires every callback that is due, and time passes: weak fairness of the
\* three.
MaxLive == 5
LiveHorizon == MaxLive * update_interval
TimerDue == now = iteration_count * update_interval
LiveTick == TimerDue /\ TimerTick("timer")
LiveAdvance ==
    /\ now < iteration_count * update_interval
    /\ Advance(update_interval, LiveHorizon)

\* Zone 1's sensor: on target at startup, then 3.0 F below the low target,
\* then back within the band, then below again.
LiveTemps == <<ConfigTargetTemperature, 650, ConfigTargetTemperature + 1, 649>>
ZoneDemandTurns ==
    \E i \in 1..(Len(LiveTemps) - 1) :
        /\ entity["zone1"].current_temperature = Some(LiveTemps[i])
        /\ ReportTemperature("zone1", Some(LiveTemps[i + 1]))

LiveStep ==
    \/ OkStep("timer")
    \/ proc["timer"].pc = "mode1" /\ SetHvacModeDone("timer", FALSE)

NextLive ==
    \/ LiveTick
    \/ LiveStep
    \/ LiveAdvance
    \/ ZoneDemandTurns

LiveFairness ==
    /\ WF_vars(LiveTick)
    /\ WF_vars(LiveStep)
    /\ WF_vars(LiveAdvance)

SpecLive == Init /\ [][NextLive]_vars /\ LiveFairness

\* SpecLiveOk: the same where every actuator call returns.
NextLiveOk ==
    \/ LiveTick
    \/ OkStep("timer")
    \/ LiveAdvance
    \/ ZoneDemandTurns

LiveOkFairness ==
    /\ WF_vars(LiveTick)
    /\ WF_vars(OkStep("timer"))
    /\ WF_vars(LiveAdvance)

SpecLiveOk == Init /\ [][NextLiveOk]_vars /\ LiveOkFairness

\* ----------------------------------------------------------------- claims

Active(m) == m \in {"heat", "cool", "dry"}
ConflictingPair(m1, m2) ==
    {m1, m2} = {"heat", "cool"} \/ {m1, m2} = {"heat", "dry"}

\* Coroutine p enters async_control_loop and reaches actuation in this step.
TickPlanned(p) == proc[p].pc \notin TickPcs /\ proc'[p].pc = "mode1"
\* Command p's store write returns and it calls async_control_loop in this step.
StartsTick(p) == proc'[p].trace = proc[p].trace \o <<"persist", "tick">>
\* The read of zone z's temperature returns None.
Unreadable(z) ==
    ~entity[z].available \/ entity[z].current_temperature = None
AnyUnreadable == Unreadable("zone1") \/ Unreadable("zone2")

\* C1: in every tick that reaches actuation, the pair of modes commanded after
\* arbitration and the cycle guard is never {heat, cool} and never {heat, dry},
\* whatever ticks and commands came before (SpecModes).
C1_CommandedPairNeverConflicts ==
    \A p \in Procs :
        proc[p].loc # None =>
            ~ConflictingPair(proc[p].loc[1].mode1, proc[p].loc[1].mode2)

\* A tick whose desired modes conflict, and whose arbitrated pair the cycle
\* guard replaced, has issued all its commands.
C1_Witness ==
    \E p \in Procs :
        /\ proc[p].pc = "temp2"
        /\ ConflictingPair(proc[p].loc[1].desired_mode1,
                           proc[p].loc[1].desired_mode2)
        /\ <<proc[p].loc[1].mode1, proc[p].loc[1].mode2>>
               # <<proc[p].loc[1].arb_mode1, proc[p].loc[1].arb_mode2>>

\* C2: at most one invocation of async_control_loop is between its start and
\* its bookkeeping at any time (Spec).
C2_TicksMutuallyExclusive ==
    Cardinality({p \in Procs : proc[p].pc \in TickPcs}) <= 1

\* C3: with ticks one at a time, a compressor start is recorded no sooner than
\* min_compressor_off_time after the recorded stop before it, no two recorded
\* starts are closer than that, and a tick whose arbitrated modes would start
\* the compressor sooner commands fan_only to both zones (SpecRestart).
C3_OffTimeRespected ==
    [][/\ (~compressor_running /\ compressor_running'
              /\ compressor_last_stop_time # None)
          => now - compressor_last_stop_time[1] >= min_compressor_off_time
       /\ \A i \in 1..(Len(compressor_start_times') - 1) :
              compressor_start_times'[i + 1] - compressor_start_times'[i]
                  >= min_compressor_off_time
       /\ \A p \in Procs :
              (/\ TickPlanned(p)
               /\ ~compressor_running
               /\ Active(proc'[p].loc[1].arb_mode1)
                      \/ Active(proc'[p].loc[1].arb_mode2)
               /\ compressor_last_stop_time # None
               /\ now - compressor_last_stop_time[1] < min_compressor_off_time)
              => /\ proc'[p].loc[1].mode1 = "fan_only"
                 /\ proc'[p].loc[1].mode2 = "fan_only"]_vars

\* C4: with ticks one at a time, a compressor stop is recorded no sooner than
\* min_compressor_runtime after the latest recorded start; a tick whose
\* arbitrated modes would stop it sooner commands each zone's last_mode
\* instead, and compressor_running is still true after that tick (SpecSeq).
C4_MinRuntimeRespected ==
    [][/\ (/\ compressor_last_stop_time' # None
           /\ compressor_last_stop_time' # compressor_last_stop_time)
          => /\ compressor_last_start_time # None
             /\ now - compressor_last_start_time[1] >= min_compressor_runtime
       /\ \A p \in Procs :
              (/\ TickPlanned(p)
               /\ compressor_running
               /\ ~Active(proc'[p].loc[1].arb_mode1)
               /\ ~Active(proc'[p].loc[1].arb_mode2)
               /\ compressor_last_start_time # None
               /\ now - compressor_last_start_time[1] < min_compressor_runtime)
              => /\ proc'[p].loc[1].mode1 = zones["zone1"].last_mode
                 /\ proc'[p].loc[1].mode2 = zones["zone2"].last_mode
       /\ \A p \in Procs :
              (/\ proc[p].pc = "temp2"
               /\ proc'[p].pc # "temp2"
               /\ iteration_count' = iteration_count
               /\ ~Active(proc[p].loc[1].arb_mode1)
               /\ ~Active(proc[p].loc[1].arb_mode2)
               /\ Active(proc[p].loc[1].mode1) \/ Active(proc[p].loc[1].mode2))
              => compressor_running']_vars

\* After a recorded stop and a new start, a tick that would stop the
\* compressor is in flight with the previous modes.
C4_Witness ==
    /\ compressor_last_stop_time # None
    /\ \E p \in Procs :
           /\ proc[p].loc # None
           /\ ~Active(proc[p].loc[1].arb_mode1)
           /\ ~Active(proc[p].loc[1].arb_mode2)
           /\ Active(proc[p].loc[1].mode1)

\* C5 as stated: a tick that finds a temperature unreadable leaves every field
\* of the controller and zone state as it was, iteration_count included, and
\* issues no actuator command (SpecSensors).
C5_AbortedTickChangesNothing ==
    [][\A p \in Cmds :
           (StartsTick(p) /\ enabled /\ AnyUnreadable)
           => /\ UNCHANGED <<ctl, entity>>
              /\ proc'[p].pc \notin TickPcs]_vars

\* C5: an enabled tick that finds a temperature unreadable adds one to
\* iteration_count, leaves every other field of the controller and zone state
\* as it was, and issues no actuator command (SpecSensors).
C5_AbortedTickOnlyCounts ==
    [][/\ \A p \in Cmds :
              (StartsTick(p) /\ enabled /\ AnyUnreadable)
              => iteration_count' = iteration_count + 1
       /\ (iteration_count' # iteration_count /\ AnyUnreadable)
          => /\ iteration_count' = iteration_count + 1
             /\ UNCHANGED <<zones, heating_rate, cooling_rate, leakage_rate,
                            rate_samples, enabled, compressor_start_times,
                            compressor_running, compressor_last_start_time,
                            compressor_last_stop_time, entity>>
             /\ \A p \in Procs :
                    proc'[p].pc \in TickPcs => proc'[p] = proc[p]]_vars

\* Ticks have run, the compressor is on, and a later tick was aborted on an
\* unreadable temperature.
C5_Witness ==
    /\ AnyUnreadable
    /\ compressor_running
    /\ iteration_count > Len(zones["zone1"].temperature_history)
    /\ \A p \in Procs : proc[p].pc \notin TickPcs

\* C6: a tick that starts while enabled is false returns at once: no actuator
\* command, and the controller and zone state unchanged (SpecSensors).
C6_DisabledTickIsNoOp ==
    [][/\ \A p \in Cmds :
              (StartsTick(p) /\ ~enabled)
              => /\ UNCHANGED <<ctl, entity>>
                 /\ proc'[p].pc \notin TickPcs
       /\ (~enabled /\ proc["timer"].pc = "idle")
          => /\ proc'["timer"].pc = "idle"
             /\ (\A p \in Cmds : proc'[p] = proc[p]) => UNCHANGED ctl]_vars

\* After enabled ticks, a command has run its tick with the controller
\* disabled.
C6_Witness ==
    /\ ~enabled
    /\ iteration_count > 0
    /\ proc["cmd1"].pc = "done"
    /\ proc["cmd1"].kind = "climate_set_fan_mode"
    /\ proc["cmd1"].trace = <<"mutate", "persist", "tick">>

\* C7: set_enabled(true) sets enabled, persists and runs one tick before it
\* completes; set_enabled(false) never runs a tick that actuates (SpecCmds).
C7_EnableTicksDisableDoesNot ==
    \A p \in Cmds :
        /\ (proc[p].kind = "set_enable_true" /\ proc[p].pc = "done")
           => proc[p].trace = <<"mutate", "persist", "tick">>
        /\ proc[p].kind = "set_enable_false" => proc[p].pc \notin TickPcs

\* C8 as stated: every command, when it completes, has done exactly mutate,
\* persist, one tick (SpecCmds).
C8_EveryCommandMutatePersistTick ==
    \A p \in Cmds :
        proc[p].pc = "done" => proc[p].trace = <<"mutate", "persist", "tick">>

\* C8: when it completes, reset_learning has done mutate, persist and no tick;
\* set_enabled mutate, persist and then one tick exactly if enabled was true
\* when the persist returned; the climate entity's set_temperature given an
\* hvac_mode mutate, mutate, persist, tick, persist, tick; every other command
\* mutate, persist, one tick (SpecCmds).
C8_CommandSequences ==
    [][\A p \in Cmds :
           /\ proc'[p].pc = "done"
              => LET kind == proc'[p].kind
                     trace == proc'[p].trace
                 IN  IF kind = "reset_learning"
                     THEN trace = <<"mutate", "persist">>
                     ELSE IF kind \in {"set_enable_true", "set_enable_false"}
                     THEN trace \in {<<"mutate", "persist">>,
                                     <<"mutate", "persist", "tick">>}
                     ELSE IF kind = "climate_set_temperature"
                     THEN trace \in {<<"mutate", "persist", "tick">>,
                                     <<"mutate", "mutate", "persist", "tick",
                                       "persist", "tick">>}
                     ELSE trace = <<"mutate", "persist", "tick">>
           /\ (/\ proc[p].pc = "save"
               /\ proc'[p].pc # "save"
               /\ proc[p].kind \in {"set_enable_true", "set_enable_false"})
              => (enabled <=> StartsTick(p))]_vars

\* The climate entity's set_temperature with an hvac_mode has completed.
C8_Witness ==
    \E p \in Cmds :
        /\ proc[p].pc = "done"
        /\ proc[p].kind = "climate_set_temperature"
        /\ Len(proc[p].trace) = 6

\* C9: a tick that has begun to actuate ends only after the last setpoint
\* command, with its bookkeeping, also when an actuator call raised (Spec).
C9_TickSurvivesActuatorFailure ==
    [][\A p \in Procs :
           (proc[p].pc \in TickPcs /\ proc'[p].pc \notin TickPcs)
           => proc[p].pc = "temp2"]_vars

\* C10: every zone whose user mode is heat_cool has
\* target_temp_low <= target_setpoint <= target_temp_high (SpecCmds).
C10_SetpointWithinRange ==
    \A z \in Zones :
        zones[z].hvac_mode = "heat_cool"
        => /\ zones[z].target_temp_low <= zones[z].target_setpoint
           /\ zones[z].target_setpoint <= zones[z].target_temp_high

\* The user-visible settings of a zone.
UserSettings(z) ==
    <<zones[z].target_setpoint, zones[z].target_temp_low,
      zones[z].target_temp_high, zones[z].hvac_mode, zones[z].nominal_fan_speed>>
\* Coroutine p is inside async_control_loop and moves in this step.
InsideTick(p) == proc[p].pc \in TickPcs /\ proc'[p] # proc[p]
\* Coroutine p enters async_control_loop, enabled, in this step.
EntersTick(p) ==
    proc[p].pc \notin TickPcs /\ proc'[p] # proc[p]
    /\ iteration_count' = iteration_count + 1

\* C11: no step of a control tick (its entry with the planning, each actuator
\* call, the state update) changes target_setpoint, target_temp_low,
\* target_temp_high, the user hvac_mode or nominal_fan_speed of either zone,
\* whether the tick applies a compensation offset, resolves a conflict or is
\* overridden by the cycle guard (SpecPlan).
C11_TickKeepsUserSettings ==
    [][(\E p \in Procs : InsideTick(p) \/ EntersTick(p))
       => \A z \in Zones : UserSettings(z)' = UserSettings(z)]_vars

\* A tick that commands zone 1 a setpoint offset from its target is about to
\* update the state, and the zone's target is still the configured one.
C11_Witness ==
    /\ proc["timer"].pc = "temp2"
    /\ proc["timer"].loc[1].comp = "zone1"
    /\ proc["timer"].loc[1].internal_setpoint1
           # Rat(zones["zone1"].target_setpoint)
    /\ zones["zone1"].target_setpoint = ConfigTargetTemperature

\* The ticks in flight, and the locals of coroutine p's tick.
InTick == {p \in Procs : proc[p].loc # None}
Loc(p) == proc[p].loc[1]
\* |target - t| of zone 1 and zone 2 for the temperatures coroutine p's tick
\* read.
Err1(p) == Abs(zones["zone1"].target_setpoint - Loc(p).t1)
Err2(p) == Abs(zones["zone2"].target_setpoint - Loc(p).t2)
\* Both commanded setpoints of coroutine p's tick are the plain targets.
PlainSetpoints(p) ==
    /\ Loc(p).internal_setpoint1 = Rat(zones["zone1"].target_setpoint)
    /\ Loc(p).internal_setpoint2 = Rat(zones["zone2"].target_setpoint)

\* C12: in a tick whose desired modes conflict, the arbitrated pair handed to
\* the cycle guard is (desired1, fan_only) if |target1 - t1| exceeds
\* |target2 - t2| + conflict_threshold, (fan_only, desired2) if
\* |target2 - t2| exceeds |target1 - t1| + conflict_threshold, and
\* (fan_only, fan_only) otherwise; both commanded setpoints are the plain
\* targets and at most one zone is left active (SpecPlan).
C12_ConflictArbitration ==
    \A p \in InTick :
        ConflictingPair(Loc(p).desired_mode1, Loc(p).desired_mode2) =>
            /\ Loc(p).arb_mode1 =
                   IF Err1(p) > Err2(p) + conflict_threshold
                   THEN Loc(p).desired_mode1 ELSE "fan_only"
            /\ Loc(p).arb_mode2 =
                   IF Err2(p) > Err1(p) + conflict_threshold
                   THEN Loc(p).desired_mode2 ELSE "fan_only"
            /\ PlainSetpoints(p)
            /\ ~(Active(Loc(p).arb_mode1) /\ Active(Loc(p).arb_mode2))

\* A tick found heat against cooling with zone 2 further from its target by
\* more than the threshold, and has issued all its commands.
C12_Witness ==
    /\ proc["timer"].pc = "temp2"
    /\ Loc("timer").desired_mode1 = "heat"
    /\ Loc("timer").desired_mode2 = "cool"
    /\ Err2("timer") > Err1("timer") + conflict_threshold
    /\ Loc("timer").arb_mode1 = "fan_only"
    /\ Loc("timer").arb_mode2 = "cool"

\* Both desired modes of coroutine p's tick are the same active conditioning
\* mode.
SameMode(p) ==
    Loc(p).desired_mode1 = Loc(p).desired_mode2
    /\ Loc(p).desired_mode1 \in {"heat", "cool"}
\* The learned rate of zone z for mode m, and whether it is unknown.
LearnedRate(z, m) == IF m = "heat" THEN heating_rate[z] ELSE cooling_rate[z]
RateUnknown(z, m) == FLessEq(LearnedRate(z, m), Frac(1, 100))
\* Time-to-target of zone z in coroutine p's tick, in its desired mode:
\* |target - t| / rate, infinite for an unknown rate.
Eta(z, p) ==
    LET m == Loc(p).desired_mode1
        e == IF z = "zone1" THEN Err1(p) ELSE Err2(p)
    IN  IF RateUnknown(z, m) THEN Inf ELSE FDiv(Rat(e), LearnedRate(z, m))
\* Zone z has the strictly smaller finite time-to-target.
Leads(z, p) ==
    Eta(z, p) # Inf /\ FLess(Eta(z, p), Eta(OtherZone(z), p))
\* clamp(x, lo, hi) = min(max(x, lo), hi)
Clamp(x, lo, hi) == FMin(FMax(x, lo), hi)
\* clamp(L * (ETA_lag - ETA_lead), min_offset, 4.0) for lead zone z, where L is
\* z's leakage rate or 0.15 when that is below 0.01.
ExpectedOffset(z, p) ==
    LET L == IF FLess(leakage_rate[z], Frac(1, 10)) THEN Frac(3, 2)
             ELSE leakage_rate[z]
    IN  Clamp(FMul(L, FSub(Eta(OtherZone(z), p), Eta(z, p))),
              Rat(min_offset), Rat(40))
\* The setpoint coroutine p's tick commands zone z.
Commanded(z, p) ==
    IF z = "zone1" THEN Loc(p).internal_setpoint1 ELSE Loc(p).internal_setpoint2

\* C13: in a tick where both desired modes are the same of heat and cool and
\* one zone has the strictly smaller finite time-to-target, that zone is
\* commanded target - offset (heat) or target + offset (cool) with
\* offset = clamp(L * (ETA_lag - ETA_lead), min_offset, 4.0), L its leakage
\* rate or 0.15 when below 0.01, and the other zone is commanded its target
\* (SpecPlan).
C13_LeadSetpointOffset ==
    \A p \in InTick : \A z \in Zones :
        (SameMode(p) /\ Leads(z, p)) =>
            /\ Commanded(z, p) =
                   IF Loc(p).desired_mode1 = "heat"
                   THEN FSub(Rat(zones[z].target_setpoint), ExpectedOffset(z, p))
                   ELSE FAdd(Rat(zones[z].target_setpoint), ExpectedOffset(z, p))
            /\ Commanded(OtherZone(z), p) =
                   Rat(zones[OtherZone(z)].target_setpoint)

\* A heating tick with zone 1 the lead by a finite time, its leakage rate
\* unknown and the offset strictly inside the clamp, has issued its commands.
C13_Witness ==
    /\ proc["timer"].pc = "temp2"
    /\ SameMode("timer") /\ Loc("timer").desired_mode1 = "heat"
    /\ Leads("zone1", "timer")
    /\ Eta("zone2", "timer") # Inf
    /\ leakage_rate["zone1"] = Rat(0)
    /\ FLess(Rat(min_offset), ExpectedOffset("zone1", "timer"))
    /\ FLess(ExpectedOffset("zone1", "timer"), Rat(40))
    /\ Commanded("zone1", "timer") # Rat(zones["zone1"].target_setpoint)

\* C14: in every tick that applies a compensation offset, the offset is at
\* least min_offset and at most 4.0 (SpecPlan).
C14_OffsetWithinBounds ==
    \A p \in InTick :
        Loc(p).comp # "none" =>
            /\ FLessEq(Rat(min_offset), Loc(p).offset)
            /\ FLessEq(Loc(p).offset, Rat(40))

\* C15: in a tick where both desired modes are the same of heat and cool and
\* the two times-to-target are equal, or both infinite, both commanded
\* setpoints are the plain targets (SpecPlan).
C15_EqualTimesNoCompensation ==
    \A p \in InTick :
        (SameMode(p) /\ Eta("zone1", p) = Eta("zone2", p)) =>
            /\ PlainSetpoints(p)
            /\ Loc(p).comp = "none"

\* A cooling tick with equal finite times-to-target has issued its commands.
C15_Witness ==
    /\ proc["timer"].pc = "temp2"
    /\ SameMode("timer") /\ Loc("timer").desired_mode1 = "cool"
    /\ Eta("zone1", "timer") = Eta("zone2", "timer")
    /\ Eta("zone1", "timer") # Inf
    /\ PlainSetpoints("timer")

\* Zone z is marked lead in coroutine p's tick.
MarkedLead(z, p) ==
    IF z = "zone1" THEN Loc(p).is_lead_zone1 ELSE Loc(p).is_lead_zone2

\* C16: in a tick where both desired modes are the same of heat and cool and
\* at least one zone's learned rate for that mode is unknown, both commanded
\* setpoints are the plain targets and neither zone is marked lead (SpecPlan).
C16_UnknownRateNoCompensation ==
    \A p \in InTick :
        (SameMode(p) /\ \E z \in Zones : RateUnknown(z, Loc(p).desired_mode1))
        => /\ PlainSetpoints(p)
           /\ ~MarkedLead("zone1", p) /\ ~MarkedLead("zone2", p)

\* The temperature coroutine p's tick read for zone z, and the mode it
\* desires for z.
TempRead(z, p) == IF z = "zone1" THEN Loc(p).t1 ELSE Loc(p).t2
Desired(z, p) ==
    IF z = "zone1" THEN Loc(p).desired_mode1 ELSE Loc(p).desired_mode2

\* C17: in every tick, with db the effective deadband, t the temperature read
\* and d the desired mode of a zone: in range mode d is heat iff
\* t < target_temp_low - db, cool iff t > target_temp_high + db, and fan_only
\* otherwise; in heat mode d is heat iff target_setpoint - t > db, else
\* fan_only; in cool mode d is cool iff target_setpoint - t < -db, else
\* fan_only; in dry mode d is dry iff |target_setpoint - t| < 5.0, else
\* fan_only (SpecPlan).
C17_DesiredModeTable ==
    \A p \in InTick : \A z \in Zones :
        LET u == zones[z].hvac_mode
            t == TempRead(z, p)
            d == Desired(z, p)
            db == Loc(p).dynamic_deadband
            e == zones[z].target_setpoint - t
            cold == t < zones[z].target_temp_low - db
            hot == t > zones[z].target_temp_high + db
        IN  /\ u = "heat_cool" =>
                /\ d = "heat" <=> cold
                /\ d = "cool" <=> hot
                /\ d = "fan_only" <=> (~cold /\ ~hot)
            /\ u = "heat" => d = (IF e > db THEN "heat" ELSE "fan_only")
            /\ u = "cool" => d = (IF e < -db THEN "cool" ELSE "fan_only")
            /\ u = "dry" => d = (IF Abs(e) < 50 THEN "dry" ELSE "fan_only")

\* After three compressor starts within the hour (deadband 1.5), a tick read
\* zone 1, in range mode, exactly at target_temp_low - 1.5, desired fan_only
\* for it, and has issued all its commands.
C17_Witness ==
    /\ proc["timer"].pc = "temp2"
    /\ Loc("timer").dynamic_deadband = 3 * deadband
    /\ zones["zone1"].hvac_mode = "heat_cool"
    /\ Loc("timer").t1 = zones["zone1"].target_temp_low - 3 * deadband
    /\ Loc("timer").desired_mode1 = "fan_only"

\* C18: in every tick, a zone whose user mode is off has the desired mode
\* off, whatever temperature was read and whatever the effective deadband
\* (SpecPlan).
C18_UserOffDesiresOff ==
    \A p \in InTick : \A z \in Zones :
        zones[z].hvac_mode = "off" => Desired(z, p) = "off"

\* With the tripled deadband, a tick read zone 1, whose user mode is off, 5.0
\* below its target while zone 2 heats, desired off for zone 1, and has issued
\* all its commands.
C18_Witness ==
    /\ proc["timer"].pc = "temp2"
    /\ zones["zone1"].hvac_mode = "off"
    /\ Loc("timer").dynamic_deadband = 3 * deadband
    /\ Loc("timer").t1 = zones["zone1"].target_setpoint - 50
    /\ Loc("timer").desired_mode1 = "off"
    /\ Loc("timer").desired_mode2 = "heat"

\* C19: for the pair of desired modes of every tick, modes_conflict is true
\* exactly for heat with cool and heat with dry, in either order; it gives the
\* same answer with its arguments exchanged; it is false for cool with dry,
\* for a mode with itself and for any pair with fan_only or off; and the tick
\* takes its conflict branch, which turns a desired mode into fan_only,
\* exactly for those pairs (SpecPlan).
C19_ModesConflictTable ==
    \A p \in InTick :
        LET d1 == Loc(p).desired_mode1
            d2 == Loc(p).desired_mode2
        IN  /\ modes_conflict(d1, d2) <=> ConflictingPair(d1, d2)
            /\ modes_conflict(d1, d2) <=> modes_conflict(d2, d1)
            /\ {d1, d2} = {"cool", "dry"} => ~modes_conflict(d1, d2)
            /\ (d1 = d2 \/ d1 \in {"fan_only", "off"} \/ d2 \in {"fan_only", "off"})
               => ~modes_conflict(d1, d2)
            /\ (<<Loc(p).arb_mode1, Loc(p).arb_mode2>> # <<d1, d2>>)
               <=> ConflictingPair(d1, d2)

\* A tick desired dry for zone 1 and heat for zone 2, handed the cycle guard
\* a pair with fan_only in it, and has issued all its commands.
C19_Witness ==
    /\ proc["timer"].pc = "temp2"
    /\ Loc("timer").desired_mode1 = "dry"
    /\ Loc("timer").desired_mode2 = "heat"
    /\ modes_conflict("dry", "heat")
    /\ "fan_only" \in {Loc("timer").arb_mode1, Loc("timer").arb_mode2}

\* Absolute temperature errors in increasing order: on, just below and just
\* above 0.5, 1.5, 3.0 and 5.0.
ErrorVals == <<0, 4, 5, 6, 14, 15, 16, 29, 30, 31, 49, 50, 51, 60>>
\* The mode coroutine p's tick commands zone z, and the fan speed it plans.
ModeCommanded(z, p) == IF z = "zone1" THEN Loc(p).mode1 ELSE Loc(p).mode2
FanPlanned(z, p) ==
    IF z = "zone1" THEN Loc(p).fan_speed1 ELSE Loc(p).fan_speed2
\* calculate_optimal_fan_speed for zone z at error e, with the mode, the lead
\* status and the other zone's mode of coroutine p's tick.
PlanAt(z, p, e) ==
    calculate_optimal_fan_speed(z, ModeCommanded(z, p), e, MarkedLead(z, p),
                                ModeCommanded(OtherZone(z), p))

\* C20: for the mode, lead status, nominal fan speed and other-zone mode of
\* each zone in every tick, the level of calculate_optimal_fan_speed does not
\* decrease from one error to the next larger one across 0.5, 1.5, 3.0 and
\* 5.0 (hence between any two); the speed the tick plans is the function's value at the zone's own
\* error (SpecPlan).
C20_FanSpeedMonotone ==
    \A p \in InTick : \A z \in Zones :
        /\ \A i \in 1..(Len(ErrorVals) - 1) :
               FAN_SPEED_LEVELS[PlanAt(z, p, ErrorVals[i])]
                   <= FAN_SPEED_LEVELS[PlanAt(z, p, ErrorVals[i + 1])]
        /\ FanPlanned(z, p) =
               PlanAt(z, p, IF z = "zone1" THEN Err1(p) ELSE Err2(p))

\* A tick heats zone 1 alone, the lead, 0.6 from its target with nominal
\* speed quiet, plans quiet for it where a larger error would plan low,
\* medium and high, and has issued all its commands.
C20_Witness ==
    /\ proc["timer"].pc = "temp2"
    /\ Loc("timer").mode1 = "heat" /\ MarkedLead("zone1", "timer")
    /\ zones["zone1"].nominal_fan_speed = "quiet"
    /\ Err1("timer") = 6
    /\ FanPlanned("zone1", "timer") = "quiet"
    /\ PlanAt("zone1", "timer", 16) = "low"
    /\ PlanAt("zone1", "timer", 31) = "medium"
    /\ PlanAt("zone1", "timer", 51) = "high"

\* The fan level of the specification's table for a zone in mode m at
\* absolute error e with nominal level n, lead status lead and the other
\* zone in mode other.
TableLevel(m, e, n, lead, other) ==
    CASE m = "fan_only" -> IF other \in {"heat", "cool"} THEN 0 ELSE n
      [] m = "off" -> 0
      [] m = "dry" -> n
      [] m \in {"heat", "cool"} /\ e > 50 -> 3
      [] m \in {"heat", "cool"} /\ 30 < e /\ e <= 50 -> Min(n + 2, 3)
      [] m \in {"heat", "cool"} /\ 15 < e /\ e <= 30 -> Min(n + 1, 3)
      [] m \in {"heat", "cool"} /\ e <= 15 /\ lead /\ e < 5 -> 0
      [] m \in {"heat", "cool"} /\ e <= 15 /\ lead /\ e >= 5 -> Max(n - 2, 0)
      [] m \in {"heat", "cool"} /\ e <= 15 /\ ~lead -> Max(n - 1, 0)

\* C21: the fan speed every tick plans for each zone is the level the
\* specification's table gives for the zone's commanded mode, its absolute
\* error, its nominal level, its lead status and the other zone's commanded
\* mode; and so is calculate_optimal_fan_speed at every error on and next to
\* the thresholds 0.5, 1.5, 3.0 and 5.0 (SpecPlan).
C21_FanSpeedTable ==
    \A p \in InTick : \A z \in Zones :
        LET n == FAN_SPEED_LEVELS[zones[z].nominal_fan_speed]
            m == ModeCommanded(z, p)
            other == ModeCommanded(OtherZone(z), p)
        IN  /\ FAN_SPEED_LEVELS[FanPlanned(z, p)] =
                   TableLevel(m, IF z = "zone1" THEN Err1(p) ELSE Err2(p), n,
                              MarkedLead(z, p), other)
            /\ \A i \in 1..Len(ErrorVals) :
                   FAN_SPEED_LEVELS[PlanAt(z, p, ErrorVals[i])] =
                       TableLevel(m, ErrorVals[i], n, MarkedLead(z, p), other)

\* A tick circulates air in zone 1 next to a dehumidifying zone 2 and plans
\* the nominal speed high for zone 1 (not quiet), and has issued all its
\* commands.
C21_Witness ==
    /\ proc["timer"].pc = "temp2"
    /\ Loc("timer").mode1 = "fan_only" /\ Loc("timer").mode2 = "dry"
    /\ zones["zone1"].nominal_fan_speed = "high"
    /\ FanPlanned("zone1", "timer") = "high"

\* The recorded starts less than an hour old.
StartsWithinHour ==
    {i \in 1..Len(compressor_start_times) :
        now - compressor_start_times[i] < RecentWindow}

\* C22: the deadband a tick computes is three times the configured deadband
\* exactly when the starts recorded within the trailing 3600 s number
\* max_starts_per_hour or more, and the configured deadband otherwise; the
\* desired modes of both zones in that tick are determined with this value
\* (SpecStarts).
C22_DynamicDeadband ==
    [][\A p \in Procs : TickPlanned(p) =>
          LET db == IF Cardinality(StartsWithinHour) >= max_starts_per_hour
                    THEN 3 * deadband
                    ELSE deadband
          IN  /\ Loc(p)'.dynamic_deadband = db
              /\ \A z \in Zones :
                     Desired(z, p)' =
                         determine_desired_mode(z, TempRead(z, p)', db)]_vars

\* With exactly max_starts_per_hour starts within the hour, a tick used the
\* tripled deadband, read zone 1 1.0 F below its low target, desired fan_only
\* for it where the configured deadband asks for heat, and has issued all its
\* commands.
C22_Witness ==
    /\ proc["timer"].pc = "temp2"
    /\ Cardinality(StartsWithinHour) = max_starts_per_hour
    /\ Loc("timer").dynamic_deadband = 3 * deadband
    /\ Loc("timer").t1 = zones["zone1"].target_temp_low - 10
    /\ Desired("zone1", "timer") = "fan_only"
    /\ determine_desired_mode("zone1", Loc("timer").t1, deadband) = "heat"

\* C23: count_recent_starts is the number of recorded start timestamps t
\* with now - 3600 < t: a start recorded 3600 s or more before now is not
\* counted, every later one is (SpecStarts).
C23_CountRecentStarts ==
    /\ count_recent_starts = Cardinality(StartsWithinHour)
    /\ count_recent_starts =
           Len(compressor_start_times)
           - Cardinality({i \in 1..Len(compressor_start_times) :
                             compressor_start_times[i] + RecentWindow <= now})

\* Of three recorded starts the oldest is exactly 3600 s old: two are
\* counted, and a tick used the configured deadband and has issued all its
\* commands.
C23_Witness ==
    /\ proc["timer"].pc = "temp2"
    /\ Len(compressor_start_times) = max_starts_per_hour
    /\ now - compressor_start_times[1] = RecentWindow
    /\ count_recent_starts = max_starts_per_hour - 1
    /\ Loc("timer").dynamic_deadband = deadband

\* C24: the starts recorded within the trailing 3600 s never number more
\* than max_starts_per_hour, whatever the ticks and the temperatures
\* (SpecStarts).
C24_StartsPerHourLimited ==
    Cardinality(StartsWithinHour) <= max_starts_per_hour

\* All three learned rates of both zones are zero.
RatesZero(hr, cr, lr) ==
    \A z \in Zones : hr[z] = Rat(0) /\ cr[z] = Rat(0) /\ lr[z] = Rat(0)
\* The learning is in its reset state: rates zero and sample windows empty.
Zeroed ==
    /\ RatesZero(heating_rate, cooling_rate, leakage_rate)
    /\ \A k \in {"heating", "cooling", "leakage"} :
           \A z \in Zones : rate_samples[k][z] = <<>>
\* Coroutine p calls reset_learning, or get_state, in this step.
ResetStep(p) ==
    proc[p].pc = "idle" /\ proc'[p].kind = "reset_learning"
GetStateStep(p) ==
    proc[p].pc = "idle" /\ proc'[p].kind = "get_state"

\* C25: reset_learning leaves all three rates of both zones at zero and all
\* six sample windows empty, whatever they were; they stay so until a tick
\* next enters the control loop (through the save that completes the call
\* too); and get_state returns the rates as they are, all zero in that state
\* (SpecReset).
C25_ResetLearning ==
    [][\A p \in Cmds :
          /\ ResetStep(p) => Zeroed'
          /\ (Zeroed /\ ~(\E q \in Procs : EntersTick(q))) => Zeroed'
          /\ GetStateStep(p) =>
                 /\ proc'[p].ret[1].heating_rate = heating_rate
                 /\ proc'[p].ret[1].cooling_rate = cooling_rate
                 /\ proc'[p].ret[1].leakage_rate = leakage_rate
                 /\ Zeroed => RatesZero(proc'[p].ret[1].heating_rate,
                                        proc'[p].ret[1].cooling_rate,
                                        proc'[p].ret[1].leakage_rate)]_vars

\* The controller came up with rates of 0.1 and 0.2 F/min, which the store
\* still holds; reset_learning has zeroed them and is saving, and a
\* get_state call made since has returned all rates as zero.
C25_Witness ==
    /\ proc["cmd1"].kind = "reset_learning" /\ proc["cmd1"].pc = "save"
    /\ store[1].heating_rate["zone1"] = Rat(1)
    /\ store[1].leakage_rate["zone2"] = Rat(2)
    /\ Zeroed
    /\ proc["cmd2"].kind = "get_state" /\ proc["cmd2"].pc = "done"
    /\ RatesZero(proc["cmd2"].ret[1].heating_rate,
                 proc["cmd2"].ret[1].cooling_rate,
                 proc["cmd2"].ret[1].leakage_rate)

\* The largest number of samples _update_rate reads.
RateSampleWindow == 5

\* C26: each of the six rate sample accumulators holds at most 5 entries,
\* however many ticks have recorded samples (SpecLearn).
C26_SampleWindowsBounded ==
    \A k \in {"heating", "cooling", "leakage"} : \A z \in Zones :
        Len(rate_samples[k][z]) <= RateSampleWindow

\* C27: each zone's temperature_history and mode_history hold at most 10
\* entries and are equally long, the temperature a tick read being the last
\* entry while the tick runs (ticks running one at a time), and
\* compressor_start_times holds at most 20 entries, restored from the store
\* or recorded since (SpecBuffers).
C27_BuffersBounded ==
    /\ \A z \in Zones :
           /\ Len(zones[z].temperature_history) <= HistoryMaxLen
           /\ Len(zones[z].mode_history) <= HistoryMaxLen
           /\ Len(zones[z].temperature_history) = Len(zones[z].mode_history)
           /\ \A p \in InTick :
                  zones[z].temperature_history[
                      Len(zones[z].temperature_history)] = TempRead(z, p)
    /\ Len(compressor_start_times) <= StartTimesMaxLen

\* A first run restored 20 starts, recorded one more and a command saved the
\* list; after a restart the list was restored and the first tick recorded
\* another start, and the eleventh tick of this run has run: both histories
\* of zone 1 hold 10 entries and compressor_start_times 20, the newest last.
C27_Witness ==
    /\ iteration_count = MaxIter
    /\ Len(zones["zone1"].temperature_history) = HistoryMaxLen
    /\ Len(zones["zone1"].mode_history) = HistoryMaxLen
    /\ zones["zone1"].mode_history[1] = "heat"
    /\ Len(store[1].compressor_start_times) = StartTimesMaxLen
    /\ store[1].compressor_start_times[StartTimesMaxLen] = RecentWindow
    /\ now > RecentWindow
    /\ Len(compressor_start_times) = StartTimesMaxLen
    /\ compressor_start_times[StartTimesMaxLen] = now
    /\ compressor_start_times[StartTimesMaxLen - 1] = RecentWindow

\* Home Assistant restarts in this step and the new controller finds a stored
\* state.
Reloads == proc'["timer"].pc = "setup" /\ now' > now /\ store # None
\* The settings of zone z in the stored data d.
StoredSettings(d, z) ==
    <<d[z].target_setpoint, d[z].target_temp_low, d[z].target_temp_high,
      d[z].hvac_mode, d[z].nominal_fan_speed>>

\* C28: a save writes the setpoint, the range, the user mode and the nominal
\* fan speed of each zone, the learned rates, the enabled flag and the
\* recorded starts as they are when _save_state is called; a load restores
\* exactly the stored settings, rates and enabled flag, and of the stored
\* starts those less than 3600 s old at load time, in the stored order: a
\* start 3600 s old or older is discarded (SpecReload).
C28_SaveLoadRoundTrip ==
    [][/\ \A p \in Procs :
              /\ (proc[p].pc # "save" /\ proc'[p].pc = "save") =>
                     proc'[p].data =
                         Some(Snapshot(zones', heating_rate', cooling_rate',
                                       leakage_rate', enabled',
                                       compressor_start_times'))
              /\ (proc[p].pc = "save" /\ proc'[p].pc # "save" /\ now' = now) =>
                     store' = proc[p].data
       /\ Reloads =>
              LET d == store[1]
              IN  /\ \A z \in Zones : UserSettings(z)' = StoredSettings(d, z)
                  /\ heating_rate' = d.heating_rate
                  /\ cooling_rate' = d.cooling_rate
                  /\ leakage_rate' = d.leakage_rate
                  /\ enabled' = d.enabled
                  /\ compressor_start_times' =
                         SelectSeq(d.compressor_start_times,
                                   LAMBDA t : now' - t < RecentWindow)
                  /\ \A i \in 1..Len(compressor_start_times') :
                         compressor_start_times'[i] + RecentWindow > now'
      ]_vars

\* The controller has just restarted and restored what a command saved:
\* zone 1's setpoint 69.0, zone 2's range 64.0 to 72.0 in heat mode, rates of
\* 0.1 F/min, disabled; the oldest stored start is exactly 3600 s old at load
\* time and is not restored, the later ones are.
C28_Witness ==
    /\ proc["timer"].pc = "setup"
    /\ store # None
    /\ Len(store[1].compressor_start_times) >= 3
    /\ store[1].compressor_start_times[1] + RecentWindow = now
    /\ compressor_start_times = Tail(store[1].compressor_start_times)
    /\ zones["zone1"].target_setpoint = 690
    /\ zones["zone2"].target_temp_low = 640
    /\ zones["zone2"].hvac_mode = "heat"
    /\ heating_rate["zone1"] = Rat(1)
    /\ ~enabled

\* The actuator calls of a tick in the order async_control_loop issues them.
CallOrder == <<"mode1", "fan1", "mode2", "fan2", "temp1", "temp2">>
\* The actuator calls among the entries of s, and the verification reads of
\* zone 1 and of zone 2.
CallsOf(s) ==
    SelectSeq(s, LAMBDA x : x \in {CallOrder[i] : i \in 1..Len(CallOrder)})
Reads1 == {"verify1", "mismatch1"}
Reads2 == {"verify2", "mismatch2"}

\* C29: the actuator calls a tick has issued are, in this order and each at
\* most once, zone 1's mode, zone 1's fan speed, zone 2's mode, zone 2's fan
\* speed, zone 1's setpoint and zone 2's setpoint, each issued when the one
\* before has returned (a mode call that raises ends the tick); a zone's
\* verification read comes directly after that zone's fan call, once, and is
\* followed by the next zone's mode call or the setpoint call whether it
\* matched or not (SpecActuate).
C29_ActuationOrder ==
    \A p \in Procs :
        LET s == proc[p].sent
            c == CallsOf(s)
        IN  /\ Len(c) <= Len(CallOrder)
            /\ c = SubSeq(CallOrder, 1, Len(c))
            /\ proc[p].pc \in TickPcs => s # <<>> /\ s[Len(s)] = proc[p].pc
            /\ \A i \in 1..Len(s) :
                   /\ s[i] \in Reads1 =>
                          i > 1 /\ s[i - 1] = "fan1"
                          /\ i < Len(s) /\ s[i + 1] = "mode2"
                   /\ s[i] \in Reads2 =>
                          i > 1 /\ s[i - 1] = "fan2"
                          /\ i < Len(s) /\ s[i + 1] = "temp1"

\* A tick has issued all six calls: zone 1's fan mode read back differed from
\* the requested one and was not set again, zone 2's matched.
C29_Witness ==
    /\ proc["timer"].pc = "temp2"
    /\ proc["timer"].sent =
           <<"mode1", "fan1", "mismatch1", "mode2", "fan2", "verify2",
             "temp1", "temp2">>

\* C30: in every state, between ticks and inside them, whichever coroutines
\* are in flight, compressor_running holds exactly when the last commanded
\* mode of at least one zone is heat, cool or dry (SpecModes).
C30_CompressorRunningDerived ==
    compressor_running <=> (\E z \in Zones : Active(zones[z].last_mode))

\* The compressor runs for zone 2's dehumidifying alone (zone 1 was last
\* commanded fan_only) while a command's tick is between its actuator calls.
C30_Witness ==
    /\ compressor_running
    /\ zones["zone2"].last_mode = "dry"
    /\ zones["zone1"].last_mode = "fan_only"
    /\ proc["cmd1"].pc \in TickPcs

\* Coroutine p plans its tick in this step and the minimum-runtime override
\* fires: the arbitrated modes would stop the running compressor sooner than
\* min_compressor_runtime after its latest start.
OverrideFires(p) ==
    /\ TickPlanned(p)
    /\ compressor_running
    /\ ~Active(proc'[p].loc[1].arb_mode1)
    /\ ~Active(proc'[p].loc[1].arb_mode2)
    /\ compressor_last_start_time # None
    /\ now - compressor_last_start_time[1] < min_compressor_runtime

\* C31: whenever the minimum-runtime override fires, the pair of previous
\* modes the tick commands contains heat, cool or dry, whichever ticks
\* overlap: the override never substitutes a pair of fan_only and off
\* (SpecModes).
C31_OverrideKeepsCompressorOn ==
    [][\A p \in Procs :
          OverrideFires(p) =>
              /\ proc'[p].loc[1].mode1 = zones["zone1"].last_mode
              /\ proc'[p].loc[1].mode2 = zones["zone2"].last_mode
              /\ Active(proc'[p].loc[1].mode1) \/ Active(proc'[p].loc[1].mode2)
      ]_vars

\* While the command's tick is in flight, the timer's tick found zone 1 on
\* target with the compressor running for zone 2's dehumidifying, less than
\* min_compressor_runtime after its start: the override commands fan_only and
\* dry again where arbitration asked for fan_only twice.
C31_Witness ==
    /\ proc["cmd1"].pc \in TickPcs
    /\ proc["timer"].pc \in TickPcs
    /\ compressor_running
    /\ ~Active(Loc("timer").arb_mode1) /\ ~Active(Loc("timer").arb_mode2)
    /\ Loc("timer").mode1 = "fan_only" /\ Loc("timer").mode2 = "dry"

\* C32: in every step, whichever ticks overlap: a change of
\* compressor_running from false to true appends exactly one timestamp, the
\* current time, to compressor_start_times and sets
\* compressor_last_start_time to it; a change from true to false sets
\* compressor_last_stop_time to the current time and records no start; and a
\* step that leaves compressor_running as it is changes none of the three
\* (SpecModes).
C32_TransitionsRecordedOnce ==
    [][/\ (~compressor_running /\ compressor_running') =>
              /\ compressor_start_times' =
                     (IF Len(compressor_start_times) < StartTimesMaxLen
                      THEN compressor_start_times
                      ELSE Tail(compressor_start_times)) \o <<now>>
              /\ compressor_last_start_time' = Some(now)
              /\ compressor_last_stop_time' = compressor_last_stop_time
       /\ (compressor_running /\ ~compressor_running') =>
              /\ compressor_last_stop_time' = Some(now)
              /\ compressor_start_times' = compressor_start_times
              /\ compressor_last_start_time' = compressor_last_start_time
       /\ (compressor_running' = compressor_running) =>
              /\ compressor_start_times' = compressor_start_times
              /\ compressor_last_start_time' = compressor_last_start_time
              /\ compressor_last_stop_time' = compressor_last_stop_time
      ]_vars

\* Two ticks entered the loop before any mode command had returned (zone 1's
\* entity was off at both entries), both commanded heat to zone 1 and both
\* have completed: one start is recorded.
C32_Witness ==
    /\ iteration_count = 2
    /\ zones["zone1"].mode_history = <<"off", "off">>
    /\ \A p \in Procs : proc[p].pc \notin TickPcs
    /\ zones["zone1"].last_mode = "heat"
    /\ compressor_running
    /\ Len(compressor_start_times) = 1

\* C33: also when ticks overlap, no compressor start is recorded less than
\* min_compressor_off_time after the last recorded compressor stop
\* (SpecModes).
C33_OffTimeRespectedWhenOverlapping ==
    [][(/\ ~compressor_running /\ compressor_running'
        /\ Len(compressor_start_times') > Len(compressor_start_times)
        /\ compressor_last_stop_time # None)
       => now - compressor_last_stop_time[1] >= min_compressor_off_time]_vars

\* The sample that update_temperature_history must add to the zone's window
\* of the given kind in the tick that coroutine p enters in this step: v when
\* cond holds, nothing otherwise.
WindowGets(zone, kind, cond, v) ==
    rate_samples'[kind][zone] =
        IF cond THEN Append(rate_samples[kind][zone], v)
        ELSE rate_samples[kind][zone]
\* The temperature coroutine p's tick read for the zone.
NewestTemp(p, zone) ==
    IF zone = "zone1" THEN proc'[p].loc[1].t1 ELSE proc'[p].loc[1].t2
\* The zone's windows after the entry of coroutine p's tick, from the
\* temperature and the mode the previous tick recorded.
SamplesAsSpecified(p, zone) ==
    LET th == zones[zone].temperature_history
        mh == zones[zone].mode_history
        two == Len(th) >= 1 /\ Len(mh) >= 1
        delta == IF two THEN NewestTemp(p, zone) - th[Len(th)] ELSE 0
        prev_mode == IF two THEN mh[Len(mh)] ELSE "none"
        other_mode == zones[OtherZone(zone)].last_mode
    IN  /\ WindowGets(zone, "heating",
                      two /\ prev_mode = "heat" /\ delta > 0, delta)
        /\ WindowGets(zone, "cooling",
                      two /\ prev_mode = "cool" /\ delta < 0, Abs(delta))
        /\ WindowGets(zone, "leakage",
                      /\ two /\ prev_mode = "fan_only"
                      /\ other_mode \in {"heat", "cool"}
                      /\ Abs(delta) > 0,
                      Abs(delta))
        /\ Cardinality({k \in {"heating", "cooling", "leakage"} :
               rate_samples'[k][zone] # rate_samples[k][zone]}) <= 1

\* C34: in a tick that reads both temperatures, for each zone, with delta the
\* temperature read minus the one the previous tick recorded and prev_mode
\* the mode the previous tick recorded (nothing on the zone's first
\* sample): the heating window gets delta iff prev_mode is heat and delta > 0,
\* the cooling window gets |delta| iff prev_mode is cool and delta < 0, the
\* leakage window gets |delta| iff prev_mode is fan_only, the other zone's
\* last commanded mode is heat or cool and delta is not 0 (temperatures move
\* in steps of 0.1 F, so |delta| > 0.05 is delta # 0); at most one window of
\* the zone changes.
C34_SamplesByPreviousMode ==
    [][\A p \in Procs : TickPlanned(p) =>
           \A z \in Zones : SamplesAsSpecified(p, z)]_vars

\* A tick has just recorded a cooling sample for zone 1 and a leakage sample
\* for zone 2, which idled beside it.
C34_Witness ==
    /\ proc["timer"].pc = "mode1"
    /\ zones["zone1"].last_mode = "cool"
    /\ LET th1 == zones["zone1"].temperature_history
           th2 == zones["zone2"].temperature_history
           c == rate_samples["cooling"]["zone1"]
           l == rate_samples["leakage"]["zone2"]
       IN  /\ Len(th1) >= 2 /\ Len(c) >= 1 /\ Len(l) >= 1
           /\ th1[Len(th1)] < th1[Len(th1) - 1]
           /\ c[Len(c)] = th1[Len(th1) - 1] - th1[Len(th1)]
           /\ th2[Len(th2)] # th2[Len(th2) - 1]
           /\ l[Len(l)] = Abs(th2[Len(th2)] - th2[Len(th2) - 1])

\* The learned rate of the kind for the zone, and the number of samples its
\* window must hold before _update_rate / _update_leakage_rate changes it.
RateOfKind(k, hr, cr, lr) ==
    IF k = "heating" THEN hr ELSE IF k = "cooling" THEN cr ELSE lr
MinSamples(k) == IF k = "leakage" THEN 2 ELSE 3
\* The learned rate of kind k of zone z changes in this step.
RateChanges(k, z) ==
    RateOfKind(k, heating_rate', cooling_rate', leakage_rate')[z]
        # RateOfKind(k, heating_rate, cooling_rate, leakage_rate)[z]
\* One sample was appended to the window of kind k of zone z in this step.
SampleAppended(k, z) ==
    /\ Len(rate_samples'[k][z]) = Len(rate_samples[k][z]) + 1
    /\ SubSeq(rate_samples'[k][z], 1, Len(rate_samples[k][z]))
           = rate_samples[k][z]

\* C35: apart from reset_learning itself, a learned rate changes only in the
\* step where a tick enters the control loop and appends a sample of that
\* kind for that zone, and only if the window then holds at least 3 samples
\* (heating, cooling) or 2 (leakage); every other step of a tick and every
\* step between ticks leaves all rates as they are.  reset_learning leaves
\* the rates at 0 and a heating or cooling rate that is 0 stays 0 while its
\* window holds fewer than three samples.
C35_RatesChangeOnlyWithSample ==
    [][\A k \in {"heating", "cooling", "leakage"} : \A z \in Zones :
          /\ (RateChanges(k, z) /\ ~(\E p \in Cmds : ResetStep(p))) =>
                 /\ \E p \in Procs : TickPlanned(p)
                 /\ SampleAppended(k, z)
                 /\ Len(rate_samples'[k][z]) >= MinSamples(k)
          /\ (\E p \in Cmds : ResetStep(p)) =>
                 /\ RateOfKind(k, heating_rate', cooling_rate',
                               leakage_rate')[z] = Rat(0)
                 /\ rate_samples'[k][z] = <<>>
          /\ (/\ k # "leakage"
              /\ RateOfKind(k, heating_rate, cooling_rate, leakage_rate)[z]
                     = Rat(0)
              /\ Len(rate_samples'[k][z]) < 3) =>
                 RateOfKind(k, heating_rate', cooling_rate',
                            leakage_rate')[z] = Rat(0)]_vars

\* The learning was reset and the zeroed rates saved; since then zone 1 has
\* warmed in three ticks, the tick in flight has learned its heating rate
\* from the three samples, and zone 2's leakage rate was learned beside it.
C35_Witness ==
    /\ proc["timer"].pc = "mode1"
    /\ store[1].heating_rate["zone1"] = Rat(0)
    /\ Len(rate_samples["heating"]["zone1"]) = 3
    /\ heating_rate["zone1"] # Rat(0)
    /\ Len(rate_samples["leakage"]["zone2"]) >= 2
    /\ leakage_rate["zone2"] # Rat(0)

\* Time-to-target of zone z in the mode coroutine p's tick commands it, after
\* enforce_minimum_runtime: infinite outside heat and cool and for an unknown
\* rate.
PostGuardEta(z, p) ==
    LET m == ModeCommanded(z, p)
        e == IF z = "zone1" THEN Err1(p) ELSE Err2(p)
    IN  IF m \notin {"heat", "cool"} \/ RateUnknown(z, m) THEN Inf
        ELSE FDiv(Rat(e), LearnedRate(z, m))
\* Zone z is the lead for fan planning by the modes coroutine p's tick
\* commands.
LeadAfterGuard(z, p) ==
    LET mine == ModeCommanded(z, p) \in {"heat", "cool"}
        other == ModeCommanded(OtherZone(z), p) \in {"heat", "cool"}
    IN  IF mine /\ other
        THEN /\ PostGuardEta(z, p) # Inf
             /\ FLess(PostGuardEta(z, p), PostGuardEta(OtherZone(z), p))
        ELSE mine /\ ~other

\* C36: in every tick the lead status used for fan planning follows from the
\* modes enforce_minimum_runtime returned: with both in heat/cool the zone
\* with the strictly smaller finite time-to-target is lead (none when equal
\* or both infinite), with exactly one in heat/cool that zone is lead,
\* otherwise none; never both zones (SpecPlan).
C36_LeadFromGuardedModes ==
    \A p \in InTick :
        /\ \A z \in Zones : MarkedLead(z, p) = LeadAfterGuard(z, p)
        /\ ~(MarkedLead("zone1", p) /\ MarkedLead("zone2", p))

\* The minimum-runtime override has replaced an arbitrated pair of idle modes
\* by the previous modes, of which only zone 1's is heat: zone 1 is lead.
C36_Witness ==
    /\ proc["timer"].loc # None
    /\ ~Active(Loc("timer").arb_mode1) /\ ~Active(Loc("timer").arb_mode2)
    /\ Loc("timer").mode1 = "heat" /\ Loc("timer").mode2 = "fan_only"
    /\ MarkedLead("zone1", "timer") /\ ~MarkedLead("zone2", "timer")

\* Coroutine p plans its tick in this step and the off-time veto fires: the
\* arbitrated modes would start the stopped compressor sooner than
\* min_compressor_off_time after its latest stop.
VetoFires(p) ==
    /\ TickPlanned(p)
    /\ ~compressor_running
    /\ Active(proc'[p].loc[1].arb_mode1) \/ Active(proc'[p].loc[1].arb_mode2)
    /\ compressor_last_stop_time # None
    /\ now - compressor_last_stop_time[1] < min_compressor_off_time
\* The desired, arbitrated and commanded mode of zone z in the tick that
\* coroutine p plans in this step.
PlannedMode(p, z, stage) ==
    LET l == proc'[p].loc[1]
    IN  IF stage = "desired"
        THEN IF z = "zone1" THEN l.desired_mode1 ELSE l.desired_mode2
        ELSE IF stage = "arbitrated"
        THEN IF z = "zone1" THEN l.arb_mode1 ELSE l.arb_mode2
        ELSE IF z = "zone1" THEN l.mode1 ELSE l.mode2

\* C37 as stated: in every tick that reaches actuation a zone whose user mode
\* is off is commanded off, also when the off-time veto or the
\* minimum-runtime override fires.
C37_UserOffCommandedOff ==
    [][\A p \in Procs : TickPlanned(p) =>
           \A z \in Zones :
               zones[z].hvac_mode = "off" =>
                   PlannedMode(p, z, "commanded") = "off"]_vars

\* C37, amended: in every tick that reaches actuation a zone whose user mode
\* is off has desired and arbitrated mode off, and is commanded off unless
\* the cycle guard replaces the pair: fan_only when the off-time veto fires,
\* its previous tick's commanded mode when the minimum-runtime override
\* fires.
C37_UserOffUnlessGuardReplaces ==
    [][\A p \in Procs : TickPlanned(p) =>
           \A z \in Zones :
               zones[z].hvac_mode = "off" =>
                   /\ PlannedMode(p, z, "desired") = "off"
                   /\ PlannedMode(p, z, "arbitrated") = "off"
                   /\ PlannedMode(p, z, "commanded") =
                          IF VetoFires(p) THEN "fan_only"
                          ELSE IF OverrideFires(p) THEN zones[z].last_mode
                          ELSE "off"]_vars

\* Zone 1 was heating when its user switched it off; the tick that followed
\* within the minimum runtime desires off for it and commands heat.
C37_Witness ==
    \E p \in InTick :
        /\ zones["zone1"].hvac_mode = "off"
        /\ Loc(p).desired_mode1 = "off"
        /\ Loc(p).arb_mode1 = "off"
        /\ Loc(p).mode1 = "heat"
        /\ proc[p].pc = "mode1"

\* Zone 1's sensor asks for heat (below the low target by more than the
\* deadband) or not; zone 2 stays on target, so without zone 1's demand both
\* arbitrated modes are fan_only.
Demand == entity["zone1"].current_temperature \in {Some(650), Some(649)}
Calm == ~Demand
\* Enough of the horizon is left for the minimum runtime or off-time to pass
\* and two more ticks to run.
RoomLeft == now <= LiveHorizon - 4 * update_interval

SentModes == <<entity["zone1"].hvac_mode, entity["zone2"].hvac_mode>>

\* C40: at every instant, also between the zone 1 and zone 2 mode commands
\* of a tick, the modes most recently sent to the two actuators do not
\* conflict: never heat at one with cool or dry at the other.
C40_ActuatorsNeverConflict == ~ConflictingPair(SentModes[1], SentModes[2])

====
